---------------------------- MODULE Spec2Model ----------------------------
(***************************************************************************)
(* Rate limiting and session lifecycle of the AI Trip Planner backend.     *)
(*                                                                         *)
(*   trip_planner/core/rate_limiter.py   GlobalDailyLimiter,               *)
(*                                       AnonymousLimiter                  *)
(*   trip_planner/core/auth.py           per-user rate limit tracking      *)
(*   trip_planner/core/session_manager.py SessionManager                   *)
(*   trip_planner/core/runner.py         TripPlannerRunner.run_query       *)
(*   app.py                              handle_query and the other routes *)
(*                                                                         *)
(* Dates are day numbers; datetime.now().date() is the variable today.     *)
(* A Python dict is a function whose DOMAIN is the set of its keys.        *)
(* The slowapi per-minute / per-hour limiter is a library decorator that   *)
(* runs before a route handler is entered; the model starts at the         *)
(* handler's first line.                                                   *)
(***************************************************************************)
EXTENDS Integers, Sequences, FiniteSets, TLC

(***************************************************************************)
(* Bounds of the exploration.                                              *)
(***************************************************************************)
\* daily_limit (DAILY_API_LIMIT, an environment setting) ranges over 1..MaxLimit
MaxLimit == 4
\* free_limit (ANONYMOUS_FREE_LIMIT, an environment setting) ranges over 1..MaxFree
MaxFree == 2
\* the wall clock advances at most this many days
MaxDay == 2
\* calls explored beyond the limit while counting calls
MaxExtraCalls == 2
\* manual reset() calls explored per calendar day
MaxResets == 1
\* threads that call increment() concurrently
NThreads == 3
\* sessions the agent runtime creates in one run
MaxSessions == 2
\* exchanges recorded in one conversation
MaxLog == 1
\* asyncio tasks that call get_or_create_session at the same time
NTasks == 2
\* the daily_limit passed to get_user_rate_limit and increment_user_rate_limit
MaxUserLimit == 2

None == "None"

\* threading.Lock() as constructed: held by no thread (threads are numbered from 1)
Unlocked == 0

Min(a, b) == IF a <= b THEN a ELSE b

Max(a, b) == IF a >= b THEN a ELSE b

\* dict.get(key, default)
Get(d, k, default) == IF k \in DOMAIN d THEN d[k] ELSE default

\* d[key] = value
Put(d, k, v) == [x \in (DOMAIN d) \cup {k} |-> IF x = k THEN v ELSE d[x]]

\* {} : the empty dict
EmptyDict == [x \in {} |-> 0]

VARIABLES
    today,              \* datetime.now().date() / date.today()
    global_limiter,     \* rate_limiter.global_limiter: [daily_limit, count, reset_date, warnings_issued]
    anonymous_limiter,  \* rate_limiter.anonymous_limiter: [free_limit, usage, reset_date]
    lock_owner,         \* GlobalDailyLimiter._lock: the thread holding it, or Unlocked
    thread,             \* per thread inside increment(): [pc, ok, tmp, ret]
    session_manager,    \* the SessionManager: its four dicts and opik_client
    session_service,    \* InMemorySessionService: the user_id of each session created
    opik,               \* the tracing service: [ends]
    uuids,              \* uuid.uuid4() values drawn so far
    runner,             \* app.runner is not None: initialize_components() succeeded
    user_limits,        \* auth._user_limits: per user [count, reset_date]
    task,               \* per asyncio task inside get_or_create_session: [pc, user_id, session]
    users,              \* the users table of the SQLite database: its rows in insertion order
    web_session,        \* per web client, request.session as its cookie carries it
    reg,                \* per web client, its POST /api/register between the email lookup and the INSERT
    signed_in,          \* history: per web client, the user of its last successful register or login, <<>> after a logout
    keyed,              \* the threads inside AnonymousLimiter.check_and_increment and increment_user_rate_limit, and the two locks
    run,                \* the asyncio tasks inside run_query, and runner._current_query_span
    http,               \* the HTTP request being served: where it is in the middleware stack, its response so far
    goc_prev,           \* history: per user, the last get_or_create_session result still standing
    adds,               \* history: per user, add_query_to_conversation calls since the user's session was last created or ended
    allowed_today,      \* history: global increment() calls that returned allowed = True on the current day
    incs,               \* history: per user, increment_user_rate_limit calls on the current day
    last,               \* history: the last operation, its inputs, result and pre-state
    calls,              \* history: increment() calls since construction, while fresh
    fresh,              \* history: no reset() and no date change since construction
    awaiting_first,     \* history: the date advanced and no increment() ran since
    count_at_tick,      \* history: the global count at the last date change
    fired,              \* history: warnings printed per threshold on the current calendar day
    fired_since_reset,  \* history: the same, since the last reset() of that day
    reached,            \* history: thresholds a successful increment reached since the count was last zero
    reached_today,      \* history: thresholds a successful increment reached on the current calendar day
    resets_today,       \* history: reset() calls on the current calendar day
    anon_calls,         \* history: check_and_increment calls per client on the current day
    anon_allowed,       \* history: those that returned allowed = True
    anon_reset_today    \* history: AnonymousLimiter.reset() ran on the current day

limiterVars == <<global_limiter, anonymous_limiter>>

threadVars == <<lock_owner, thread>>

globalHist == <<calls, fresh, awaiting_first, count_at_tick, fired, fired_since_reset,
               reached, reached_today, resets_today>>

anonHist == <<anon_calls, anon_allowed, anon_reset_today>>

sessionVars == <<session_manager, session_service, opik, uuids>>

appVars == <<runner, user_limits>>

authVars == <<users, web_session, reg, signed_in>>

otherVars == <<task, adds, incs, allowed_today, authVars, http, keyed, run>>

\* the bundle the SessionManager operators work on
World == [sm |-> session_manager, service |-> session_service, opik |-> opik, uuids |-> uuids]

(***************************************************************************)
(* rate_limiter.py: DailyResetMixin and GlobalDailyLimiter                 *)
(***************************************************************************)
\* self._warning_thresholds = [0.5, 0.8, 0.9, 0.95], as int(threshold * 100)
warning_thresholds == {50, 80, 90, 95}

\* GlobalDailyLimiter.__init__
GlobalDailyLimiter(limit) ==
    [daily_limit |-> limit, count |-> 0, reset_date |-> today, warnings_issued |-> {}]

\* DailyResetMixin._needs_reset
needs_reset(lim) == today > lim.reset_date

Global_check_reset_keeps_date(lim) ==
    IF needs_reset(lim)
    THEN [lim EXCEPT !.count = 0, !.warnings_issued = {}]
    ELSE lim

Global_check_reset_keeps_count(lim) ==
    IF needs_reset(lim)
    THEN [lim EXCEPT !.reset_date = today, !.warnings_issued = {}]
    ELSE lim

\* GlobalDailyLimiter._check_reset (with DailyResetMixin._update_reset_date)
Global_check_reset(lim) ==
    IF needs_reset(lim)
    THEN [lim EXCEPT !.count = 0, !.reset_date = today, !.warnings_issued = {}]
    ELSE lim

warnings_due_unguarded(lim, c) ==
    {t \in warning_thresholds : 100 * c >= t * lim.daily_limit}

\* GlobalDailyLimiter._issue_warning_if_needed: the thresholds it prints for count c.
\* usage_ratio >= threshold is count / daily_limit >= t / 100.
warnings_due(lim, c) ==
    {t \in warning_thresholds : 100 * c >= t * lim.daily_limit /\ t \notin lim.warnings_issued}

Global_increment_off_by_one(lim) ==
    LET l1 == Global_check_reset(lim) IN
    IF l1.count > l1.daily_limit
    THEN [lim |-> l1, ret |-> <<FALSE, l1.count, 0>>, warned |-> {}]
    ELSE LET c == l1.count + 1
             w == warnings_due(l1, c)
         IN [lim |-> [l1 EXCEPT !.count = c, !.warnings_issued = @ \cup w],
             ret |-> <<TRUE, c, l1.daily_limit - c>>,
             warned |-> w]

\* GlobalDailyLimiter.increment, the body under self._lock:
\* the limiter afterwards, the tuple returned and the warnings printed
Global_increment(lim) ==
    LET l1 == Global_check_reset(lim) IN
    IF l1.count >= l1.daily_limit
    THEN [lim |-> l1, ret |-> <<FALSE, l1.count, 0>>, warned |-> {}]
    ELSE LET c == l1.count + 1
             w == warnings_due(l1, c)
         IN [lim |-> [l1 EXCEPT !.count = c, !.warnings_issued = @ \cup w],
             ret |-> <<TRUE, c, l1.daily_limit - c>>,
             warned |-> w]

Global_get_status_counts(lim) ==
    LET l1 == Global_check_reset(lim)
        l2 == [l1 EXCEPT !.count = Min(@ + 1, l1.daily_limit)]
    IN [lim |-> l2,
        ret |-> [count |-> l2.count, limit |-> l2.daily_limit,
                 remaining |-> l2.daily_limit - l2.count, reset_date |-> l2.reset_date]]

\* GlobalDailyLimiter.get_status: the limiter afterwards and the dict returned
\* (usage_percent, a rounding of 100 * count / limit, is left out of the dict)
Global_get_status(lim) ==
    LET l1 == Global_check_reset(lim) IN
    [lim |-> l1,
     ret |-> [count |-> l1.count, limit |-> l1.daily_limit,
              remaining |-> l1.daily_limit - l1.count, reset_date |-> l1.reset_date]]

Global_reset_keeps_warnings(lim) == [lim EXCEPT !.count = 0]

\* GlobalDailyLimiter.reset
Global_reset(lim) == [lim EXCEPT !.count = 0, !.warnings_issued = {}]

(***************************************************************************)
(* rate_limiter.py: AnonymousLimiter                                       *)
(***************************************************************************)
Clients == {"1.2.3.4", "5.6.7.8"}

\* AnonymousLimiter.__init__
AnonymousLimiter(limit) == [free_limit |-> limit, usage |-> EmptyDict, reset_date |-> today]

Anon_check_reset_keeps_usage(lim) ==
    IF needs_reset(lim)
    THEN [lim EXCEPT !.reset_date = today]
    ELSE lim

\* AnonymousLimiter._check_reset
Anon_check_reset(lim) ==
    IF needs_reset(lim)
    THEN [lim EXCEPT !.usage = EmptyDict, !.reset_date = today]
    ELSE lim

Anon_check_and_increment_shared(lim, client_id) ==
    LET l1 == Anon_check_reset(lim)
        n == Get(l1.usage, client_id, 0)
    IN IF n >= l1.free_limit
       THEN [lim |-> l1, ret |-> <<FALSE, n, 0>>]
       ELSE [lim |-> [l1 EXCEPT !.usage = [x \in (DOMAIN l1.usage) \cup {client_id} |-> n + 1]],
             ret |-> <<TRUE, n + 1, l1.free_limit - (n + 1)>>]

\* AnonymousLimiter.check_and_increment, the body under self._lock
Anon_check_and_increment(lim, client_id) ==
    LET l1 == Anon_check_reset(lim)
        n == Get(l1.usage, client_id, 0)
    IN IF n >= l1.free_limit
       THEN [lim |-> l1, ret |-> <<FALSE, n, 0>>]
       ELSE [lim |-> [l1 EXCEPT !.usage = Put(l1.usage, client_id, n + 1)],
             ret |-> <<TRUE, n + 1, l1.free_limit - (n + 1)>>]

Anon_get_remaining_creates_entry(lim, client_id) ==
    LET l1 == Anon_check_reset(lim)
        n == Get(l1.usage, client_id, 0)
    IN [lim |-> [l1 EXCEPT !.usage = Put(@, client_id, n)], ret |-> Max(0, l1.free_limit - n)]

\* AnonymousLimiter.get_remaining
Anon_get_remaining(lim, client_id) ==
    LET l1 == Anon_check_reset(lim) IN
    [lim |-> l1, ret |-> Max(0, l1.free_limit - Get(l1.usage, client_id, 0))]

\* AnonymousLimiter.reset
Anon_reset(lim) == [lim EXCEPT !.usage = EmptyDict]

(***************************************************************************)
(* rate_limiter.py: get_client_identifier.  A header value is the sequence *)
(* of the pieces between its commas, <<>> when the request has no such     *)
(* header; a piece is [body, padded]: its text without surrounding         *)
(* whitespace, and whether whitespace surrounds it.  A request is          *)
(* [forwarded, real_ip, peer].                                             *)
(***************************************************************************)
Piece(body, padded) == [body |-> body, padded |-> padded]

\* the characters of a piece, as they stand in the header
text(piece) == IF piece.padded THEN " " \o piece.body \o " " ELSE piece.body

\* the characters of a header value: its pieces joined by commas
RECURSIVE header_text(_)
header_text(header) ==
    IF Len(header) = 1 THEN text(header[1])
    ELSE text(header[1]) \o "," \o header_text(Tail(header))

\* `if forwarded:` / `if real_ip:` is false for an absent header and for the empty string
is_set(header) == Len(header) > 0 /\ header_text(header) # ""

\* forwarded.split(",")[0].strip()
first_address(header) == header[1].body

get_client_identifier_last_hop(request) ==
    IF is_set(request.forwarded)
    THEN request.forwarded[Len(request.forwarded)].body
    ELSE IF is_set(request.real_ip)
    THEN header_text(request.real_ip)
    ELSE request.peer

\* get_client_identifier; request.peer is get_remote_address(request)
get_client_identifier(request) ==
    IF is_set(request.forwarded)
    THEN first_address(request.forwarded)
    ELSE IF is_set(request.real_ip)
    THEN header_text(request.real_ip)
    ELSE request.peer

(***************************************************************************)
(* Strings.  A string is [body, padded, upper, len]: its text without      *)
(* surrounding whitespace and in lower case, whether whitespace surrounds  *)
(* it, whether it has upper-case letters, and the length of its stripped   *)
(* text.                                                                   *)
(***************************************************************************)
Str(body, padded, upper, len) == [body |-> body, padded |-> padded, upper |-> upper, len |-> len]

\* str.strip()
strip(str) == [str EXCEPT !.padded = FALSE]

\* str.lower()
lower(str) == [str EXCEPT !.upper = FALSE]

\* str[:n], of a stripped string
truncate(str, n) == [str EXCEPT !.len = Min(@, n)]

\* `not query`: the empty string
is_empty(str) == str.len = 0 /\ ~str.padded

\* query[:200] and response[:500] in add_query_to_conversation
QueryStoreLen == 200

ResponseStoreLen == 500

\* request texts: a query longer than what is stored, whitespace only, and the dummy query
Queries ==
    { Str("plan a trip", TRUE, TRUE, 250),
      Str("", TRUE, FALSE, 0),
      Str("new session", TRUE, TRUE, 11) }

\* what the agent answers: _run_agent_query never returns an empty string
Responses == { Str("itinerary", FALSE, TRUE, 600) }

(***************************************************************************)
(* session_manager.py: SessionManager.  The operators take and return the  *)
(* bundle w = [sm, service, opik, uuids]:                                  *)
(*   sm       the SessionManager's dicts and its opik_client               *)
(*   service  InMemorySessionService: the user_id of every session it      *)
(*            created; the n-th session has id n                           *)
(*   opik     the tracing service: ends[i], the number of end() calls on   *)
(*            trace i                                                      *)
(*   uuids    the number of uuid4() values drawn; each is new              *)
(* A result is [w, ret, raised].                                           *)
(***************************************************************************)
Users == {"web_user", "alice"}

\* web clients, each with its own session cookie
WebClients == {"browser1", "browser2"}

\* SessionManager.__init__; opik_client is TRUE when opik.Opik(...) was constructed
SessionManager(opik_client) ==
    [current_sessions |-> EmptyDict, conversation_ids |-> EmptyDict,
     conversation_queries |-> EmptyDict, opik_traces |-> EmptyDict,
     opik_client |-> opik_client]

Returned(w, ret) == [w |-> w, ret |-> ret, raised |-> FALSE]

Raised(w) == [w |-> w, ret |-> None, raised |-> TRUE]

\* del d[key]
Del(d, k) == [x \in (DOMAIN d) \ {k} |-> d[x]]

\* SessionManager._create_conversation_trace; trace_ok: opik_client.trace(...) did not raise
create_conversation_trace(w, user_id, trace_ok) ==
    IF w.sm.opik_client /\ trace_ok
    THEN LET trace == Len(w.opik.ends) + 1 IN
         [w EXCEPT !.opik.ends = Append(@, 0),
                   !.sm.opik_traces = Put(@, user_id, trace)]
    ELSE w

\* SessionManager._end_conversation_trace; trace_ok: trace.update and trace.end did not raise
end_conversation_trace(w, user_id, trace_ok) ==
    LET w1 == IF user_id \in DOMAIN w.sm.opik_traces /\ trace_ok
              THEN [w EXCEPT !.opik.ends[w.sm.opik_traces[user_id]] = @ + 1]
              ELSE w
    IN [w1 EXCEPT !.sm.opik_traces = Del(@, user_id)]

install_session_trace_fatal(w, user_id, trace_ok) ==
    IF w.sm.opik_client /\ ~trace_ok
    THEN Raised(w)
    ELSE LET session == Len(w.service) + 1
             w1 == [w EXCEPT !.service = Append(@, user_id),
                             !.uuids = @ + 1,
                             !.sm.current_sessions = Put(@, user_id, session),
                             !.sm.conversation_queries = Put(@, user_id, <<>>),
                             !.sm.conversation_ids = Put(@, user_id, w.uuids + 1)]
         IN Returned(create_conversation_trace(w1, user_id, TRUE), session)

\* the registry writes of get_or_create_session / create_new_session after create_session returned
install_session(w, user_id, trace_ok) ==
    LET session == Len(w.service) + 1
        conversation_id == w.uuids + 1
        w1 == [w EXCEPT !.service = Append(@, user_id),
                        !.uuids = conversation_id,
                        !.sm.current_sessions = Put(@, user_id, session),
                        !.sm.conversation_queries = Put(@, user_id, <<>>),
                        !.sm.conversation_ids = Put(@, user_id, conversation_id)]
    IN Returned(create_conversation_trace(w1, user_id, trace_ok), session)

get_or_create_session_always_creates(w, user_id, create_ok, trace_ok) ==
    IF create_ok THEN install_session(w, user_id, trace_ok) ELSE Raised(w)

get_or_create_session_partial(w, user_id, create_ok, trace_ok) ==
    IF user_id \notin DOMAIN w.sm.current_sessions
    THEN IF create_ok
         THEN install_session(w, user_id, trace_ok)
         ELSE Raised([w EXCEPT !.sm.conversation_queries = Put(@, user_id, <<>>)])
    ELSE Returned(w, w.sm.current_sessions[user_id])

\* SessionManager.get_or_create_session; create_ok: session_service.create_session did not raise
get_or_create_session(w, user_id, create_ok, trace_ok) ==
    IF user_id \notin DOMAIN w.sm.current_sessions
    THEN IF create_ok THEN install_session(w, user_id, trace_ok) ELSE Raised(w)
    ELSE Returned(w, w.sm.current_sessions[user_id])

create_new_session_keeps_existing(w, user_id, create_ok, end_ok, trace_ok) ==
    get_or_create_session(end_conversation_trace(w, user_id, end_ok), user_id, create_ok, trace_ok)

\* SessionManager.create_new_session
create_new_session(w, user_id, create_ok, end_ok, trace_ok) ==
    LET w1 == end_conversation_trace(w, user_id, end_ok) IN
    IF create_ok THEN install_session(w1, user_id, trace_ok) ELSE Raised(w1)

\* SessionManager.create_query_span: the span returned, as <<trace, query_num>>;
\* span_ok: trace.span(...) did not raise
create_query_span(w, user_id, query_num, span_ok) ==
    IF user_id \in DOMAIN w.sm.opik_traces /\ span_ok
    THEN Returned(w, <<w.sm.opik_traces[user_id], query_num>>)
    ELSE Returned(w, None)

\* SessionManager.get_conversation_id
get_conversation_id(w, user_id) ==
    IF user_id \notin DOMAIN w.sm.conversation_ids
    THEN Returned([w EXCEPT !.uuids = @ + 1, !.sm.conversation_ids = Put(@, user_id, w.uuids + 1)],
                  w.uuids + 1)
    ELSE Returned(w, w.sm.conversation_ids[user_id])

add_query_to_conversation_prepends(w, user_id, query, response) ==
    LET log == Get(w.sm.conversation_queries, user_id, <<>>)
        entry == [query |-> truncate(query, QueryStoreLen),
                  response |-> truncate(response, ResponseStoreLen)]
    IN [w EXCEPT !.sm.conversation_queries = Put(@, user_id, <<entry>> \o log)]

\* SessionManager.add_query_to_conversation
add_query_to_conversation(w, user_id, query, response) ==
    LET log == Get(w.sm.conversation_queries, user_id, <<>>)
        entry == [query |-> truncate(query, QueryStoreLen),
                  response |-> IF is_empty(response) THEN Str("No response", FALSE, TRUE, 11)
                               ELSE truncate(response, ResponseStoreLen)]
    IN [w EXCEPT !.sm.conversation_queries = Put(@, user_id, Append(log, entry))]

\* SessionManager.get_query_count
get_query_count(w, user_id) == Len(Get(w.sm.conversation_queries, user_id, <<>>))

\* SessionManager.clear_session
clear_session(w, user_id) == [w EXCEPT !.sm.current_sessions = Del(@, user_id)]

end_conversation_keeps_log(w, user_id, end_ok) ==
    LET w1 == end_conversation_trace(w, user_id, end_ok)
        w2 == [w1 EXCEPT !.sm.conversation_ids = Del(@, user_id)]
    IN clear_session(w2, user_id)

\* SessionManager.end_conversation
end_conversation(w, user_id, end_ok) ==
    LET w1 == end_conversation_trace(w, user_id, end_ok)
        w2 == [w1 EXCEPT !.sm.conversation_ids = Del(@, user_id),
                         !.sm.conversation_queries = Del(@, user_id)]
    IN clear_session(w2, user_id)

(***************************************************************************)
(* runner.py: TripPlannerRunner.  The agent's answer is an input;          *)
(* _run_agent_query catches every exception of the agent and never         *)
(* returns an empty answer.                                                *)
(***************************************************************************)
is_dummy_query_exact(query) == query.body \in {"new session", "new_session"} /\ ~query.padded /\ ~query.upper

\* run_query's is_dummy_query
is_dummy_query(query) == lower(strip(query)).body \in {"new session", "new_session"}

\* TripPlannerRunner.run_query: returns <<final_response, session>>, or raises what
\* create_session raised.  The query span it opens and ends (create_query_span) is
\* kept by nobody and changes nothing in the bundle.
run_query(w, query, user_id, new_session, response, create_ok, end_ok, trace_ok) ==
    LET s == IF new_session
             THEN create_new_session(w, user_id, create_ok, end_ok, trace_ok)
             ELSE get_or_create_session(w, user_id, create_ok, trace_ok)
        c == get_conversation_id(s.w, user_id)
    IN IF s.raised THEN Raised(s.w)
       ELSE IF is_dummy_query(query) THEN Returned(c.w, <<response, s.ret>>)
       ELSE Returned(add_query_to_conversation(c.w, user_id, query, response), <<response, s.ret>>)

\* no query span: the None of _current_query_span and of create_query_span
NoSpan == <<>>

\* the span create_query_span returns to task t: a new object under the user's trace, or
\* None when the user has no trace
query_span(w, user_id, query_num, t) ==
    IF user_id \in DOMAIN w.sm.opik_traces
    THEN <<w.sm.opik_traces[user_id], query_num, t>>
    ELSE NoSpan

\* the query span run_query opens (lines 81-97) when it runs alone, as task 0: None for a
\* dummy query, for a user without trace and when create_session raised
run_query_span(w, query, user_id, new_session, create_ok, end_ok, trace_ok) ==
    LET s == IF new_session
             THEN create_new_session(w, user_id, create_ok, end_ok, trace_ok)
             ELSE get_or_create_session(w, user_id, create_ok, trace_ok)
        query_num == get_query_count(s.w, user_id) + 1
        c == get_conversation_id(s.w, user_id)
    IN IF s.raised \/ is_dummy_query(query) THEN NoSpan
       ELSE query_span(c.w, user_id, query_num, 0)

(***************************************************************************)
(* auth.py: the per-user limiter over _user_limits                         *)
(***************************************************************************)
\* the signed-in users, by User.id; None is a request without a signed-in user
AuthUsers == {"alice"}

\* the user ids the per-user limiter is called with
UserIds == {"alice", "bob"}

\* daily_limit: int = 50
UserDailyLimit == 50

\* the entry of user_id after `if user_id not in _user_limits` and _reset_user_data_if_needed
user_data(limits, user_id) ==
    LET d == Get(limits, user_id, [count |-> 0, reset_date |-> today]) IN
    IF d.reset_date # today THEN [count |-> 0, reset_date |-> today] ELSE d

get_user_rate_limit_counts(limits, user_id, daily_limit) ==
    LET d == user_data(limits, user_id)
        c == Min(d.count + 1, daily_limit)
    IN [limits |-> Put(limits, user_id, [d EXCEPT !.count = c]),
        ret |-> [count |-> c, limit |-> daily_limit, remaining |-> daily_limit - c]]

\* auth.get_user_rate_limit
get_user_rate_limit(limits, user_id, daily_limit) ==
    LET d == user_data(limits, user_id) IN
    [limits |-> Put(limits, user_id, d),
     ret |-> [count |-> d.count, limit |-> daily_limit, remaining |-> daily_limit - d.count]]

\* auth.increment_user_rate_limit
increment_user_rate_limit(limits, user_id, daily_limit) ==
    LET d == user_data(limits, user_id) IN
    IF d.count >= daily_limit
    THEN [limits |-> Put(limits, user_id, d), ret |-> <<FALSE, d.count, 0>>]
    ELSE [limits |-> Put(limits, user_id, [d EXCEPT !.count = @ + 1]),
          ret |-> <<TRUE, d.count + 1, daily_limit - (d.count + 1)>>]

(***************************************************************************)
(* auth.py: accounts.  An email address or a name is [body, upper]: its    *)
(* text in lower case, and whether it has upper-case letters.  A row of    *)
(* the users table is [id, email, password_hash, name]; ids are numbered   *)
(* in the order secrets.token_urlsafe draws them.                          *)
(***************************************************************************)
Text(body, upper) == [body |-> body, upper |-> upper]

\* hash_password: PBKDF2 of the password under a fresh salt
hash_password(password, salt) == [salt |-> salt, hashed |-> <<password, salt>>]

\* verify_password
verify_password(password, stored_hash) == <<password, stored_hash.salt>> = stored_hash.hashed

\* get_user_by_email: the position of the row, 0 for no row
get_user_by_email(table, email) ==
    IF \E i \in 1..Len(table) : table[i].email = lower(email)
    THEN CHOOSE i \in 1..Len(table) : table[i].email = lower(email)
    ELSE 0

\* the User built from a row
User(row) == [id |-> row.id, email |-> row.email, name |-> row.name]

\* name or email.split('@')[0]
display_name(email, name) == IF name.body # "" THEN name ELSE Text(email.local, email.upper)

create_user_no_unique(table, email, password, name) ==
    LET row == [id |-> Len(table) + 1, email |-> lower(email),
                password_hash |-> hash_password(password, Len(table) + 1),
                name |-> display_name(email, name)]
    IN [table |-> Append(table, row), user |-> <<User(row)>>, raised |-> FALSE]

\* create_user; the INSERT raises sqlite3.IntegrityError when a row has the email
\* (email TEXT UNIQUE), and then nothing is written
create_user(table, email, password, name) ==
    LET row == [id |-> Len(table) + 1, email |-> lower(email),
                password_hash |-> hash_password(password, Len(table) + 1),
                name |-> display_name(email, name)]
    IN IF \E i \in 1..Len(table) : table[i].email = row.email
       THEN [table |-> table, user |-> <<>>, raised |-> TRUE]
       ELSE [table |-> Append(table, row), user |-> <<User(row)>>, raised |-> FALSE]

\* RegisterRequest.password: min_length=6, and register_user's `len(password) < 6`
MinPasswordLen == 6

\* register_user, run without interruption: [table, user, error]
register_user(table, email, password, name) ==
    IF Len(password) < MinPasswordLen
    THEN [table |-> table, user |-> <<>>, error |-> "Password must be at least 6 characters"]
    ELSE IF get_user_by_email(table, email) # 0
    THEN [table |-> table, user |-> <<>>, error |-> "An account with this email already exists"]
    ELSE LET r == create_user(table, email, password, name) IN
         IF r.raised
         THEN [table |-> r.table, user |-> <<>>, error |-> "Registration failed"]
         ELSE [table |-> r.table, user |-> r.user, error |-> None]

\* verify_user: <<user>>, or <<>> for None
verify_user(table, email, password) ==
    LET i == get_user_by_email(table, email) IN
    IF i = 0 THEN <<>>
    ELSE IF verify_password(password, table[i].password_hash) THEN <<User(table[i])>>
    ELSE <<>>

\* login_user: [user, error]
login_user(table, email, password) ==
    LET user == verify_user(table, email, password) IN
    IF user = <<>> THEN [user |-> <<>>, error |-> "Invalid email or password"]
    ELSE [user |-> user, error |-> None]

\* set_session_user
set_session_user(session, user) == Put(session, "user", user)

logout_user_keeps_user(session) == session

\* logout_user: request.session.clear()
logout_user(session) == EmptyDict

\* get_current_user: <<user>>, or <<>> for None
get_current_user(session) == IF "user" \in DOMAIN session THEN <<session["user"]>> ELSE <<>>

(***************************************************************************)
(* app.py: the decisions of handle_query                                   *)
(***************************************************************************)
gate_rejects_nobody(is_authenticated, allowed) == FALSE

\* `if not is_authenticated: ... if not allowed: raise HTTPException(status_code=401, ...)`
gate_rejects(is_authenticated, allowed) == ~is_authenticated /\ ~allowed

response_status_global_first(gate_denied, global_allowed, runner_ok, query) ==
    IF ~global_allowed THEN 429
    ELSE IF gate_denied THEN 401
    ELSE IF ~runner_ok THEN 503
    ELSE IF is_empty(query) THEN 400
    ELSE 200

\* the status handle_query answers with; query is query_request.query.strip()
response_status(gate_denied, global_allowed, runner_ok, query) ==
    IF gate_denied THEN 401
    ELSE IF ~global_allowed THEN 429
    ELSE IF ~runner_ok THEN 503
    ELSE IF is_empty(query) THEN 400
    ELSE 200

anonymous_limiter_refunded(lim, is_authenticated, charged, global_allowed) ==
    IF is_authenticated \/ ~global_allowed THEN lim ELSE charged

\* the anonymous limiter after the request: lim is the limiter before it, charged the
\* limiter after check_and_increment (line 253), which runs for an anonymous caller
\* only; nothing after line 253 touches the limiter, whatever check_global_limit()
\* (line 262) answers
anonymous_limiter_after(lim, is_authenticated, charged, global_allowed) ==
    IF is_authenticated THEN lim ELSE charged

reaches_runner_when_over_quota(status) == status \in {200, 429}

global_limiter_refunded(lim, gate_denied, charged, success) ==
    IF gate_denied THEN lim
    ELSE IF success THEN Global_get_status(charged).lim
    ELSE lim

\* the global limiter after the request: lim is the limiter before it, charged the limiter
\* after check_global_limit() (line 262), which runs when the anonymous gate let the
\* request through; a successful request reads get_global_status() for its headers, and
\* nothing else touches the limiter after line 262
global_limiter_after(lim, gate_denied, charged, success) ==
    IF gate_denied THEN lim
    ELSE IF success THEN Global_get_status(charged).lim
    ELSE charged

\* runner.run_query is awaited only when no HTTPException was raised before it
reaches_runner(status) == status = 200

(***************************************************************************)
(* History of the last operation.                                          *)
(***************************************************************************)
NoOp == [op |-> "init", arg |-> None, ret |-> <<>>, warned |-> {},
         first_after_tick |-> FALSE, stale |-> FALSE, reached_before |-> {},
         reached_today_before |-> {}, pre |-> None]

ZeroFired == [t \in warning_thresholds |-> 0]

\* the thresholds that count c has reached
ThresholdsReached(lim, c) == {t \in warning_thresholds : 100 * c >= t * lim.daily_limit}

AddFired(f, w) == [t \in warning_thresholds |-> IF t \in w THEN f[t] + 1 ELSE f[t]]

\* the asyncio tasks, none of them started
IdleTasks == [t \in 1..NTasks |-> [pc |-> "idle", user_id |-> None, session |-> 0]]

IdleThreads == [t \in 1..NThreads |-> [pc |-> "idle", ok |-> FALSE, tmp |-> 0, ret |-> <<>>]]

InitGlobalHist ==
    /\ calls = 0
    /\ fresh = TRUE
    /\ awaiting_first = FALSE
    /\ count_at_tick = 0
    /\ fired = ZeroFired
    /\ fired_since_reset = ZeroFired
    /\ reached = {}
    /\ reached_today = {}
    /\ resets_today = 0

\* goc_prev[u] when no get_or_create_session(u) result stands: none was made, or a later
\* call ended, replaced or cleared u's session.  Otherwise [set |-> TRUE, ret |-> the handle
\* returned, again |-> the call was not the first of its row]
NoPrev == [set |-> FALSE, ret |-> 0, again |-> FALSE]

\* no session anywhere; opik_client is there or not
InitSessions(opik_client) ==
    /\ session_manager = SessionManager(opik_client)
    /\ session_service = <<>>
    /\ opik = [ends |-> <<>>]
    /\ uuids = 0
    /\ goc_prev = [u \in Users |-> NoPrev]

InitAnonHist ==
    /\ anon_calls = [c \in Clients |-> 0]
    /\ anon_allowed = [c \in Clients |-> 0]
    /\ anon_reset_today = FALSE

(***************************************************************************)
(* app.py: the middleware stack, and middleware/*.py.  A header value is   *)
(* a sequence of pieces of text (<<>> when the header is absent or empty), *)
(* so that str.startswith is a prefix test that can fail.                  *)
(***************************************************************************)
\* Starlette.add_middleware: self.user_middleware.insert(0, Middleware(...));
\* app.middleware("http")(f) is add_middleware(BaseHTTPMiddleware, dispatch=f)
add_middleware(user_middleware, m) == <<m>> \o user_middleware

\* the registrations of app.py, in program order
Registrations == <<"SessionMiddleware", "CORSMiddleware", "add_request_id", "validate_content_type", "add_security_headers", "log_requests">>

\* the four functions of trip_planner.middleware
CustomMiddleware == {"add_request_id", "validate_content_type", "add_security_headers", "log_requests"}

RECURSIVE registered(_)
\* user_middleware after the first n registrations
registered(n) == IF n = 0 THEN <<>> ELSE add_middleware(registered(n - 1), Registrations[n])

\* Starlette.build_middleware_stack wraps the router in reversed(user_middleware): the
\* first element is the outermost middleware, the last one calls the router
user_middleware == registered(Len(Registrations))

\* the order the comment of app.py documents, outer to inner
DocumentedOrder == <<"add_request_id", "validate_content_type", "add_security_headers", "log_requests">>

\* str.startswith
startswith(s, prefix) == Len(s) >= Len(prefix) /\ SubSeq(s, 1, Len(prefix)) = prefix

\* validate_content_type: allowed_types
allowed_types == { <<"application/", "json">>, <<"multipart/", "form-data">>, <<"application/", "x-www-form-urlencoded">> }

\* a response with no header set yet
Response(status_code) == [status_code |-> status_code, headers |-> EmptyDict]

validate_content_type_post_only(request) ==
    IF /\ request.method = "POST"
       /\ request.content_type # <<>>
       /\ ~\E ct \in allowed_types : startswith(request.content_type, ct)
    THEN <<Response(415)>>
    ELSE <<>>

\* validate_content_type, up to its call of call_next: <<the 415 response>> when it
\* answers itself, <<>> when it passes the request on
validate_content_type(request) ==
    IF /\ request.method \in {"POST", "PUT", "PATCH"}
       /\ request.content_type # <<>>
       /\ ~\E ct \in allowed_types : startswith(request.content_type, ct)
    THEN <<Response(415)>>
    ELSE <<>>

\* str(uuid.uuid4())
uuid4 == "uuid4"

\* add_request_id, up to its call of call_next: request.state.request_id
request_id(request) == IF request.x_request_id # "" THEN request.x_request_id ELSE uuid4

\* add_request_id, after call_next returned
add_request_id(response, id) == [response EXCEPT !.headers = Put(@, "X-Request-ID", id)]

\* add_security_headers, after call_next returned (ENVIRONMENT is not "production")
add_security_headers(response) ==
    [response EXCEPT !.headers = Put(Put(Put(@, "X-Content-Type-Options", "nosniff"), "X-Frame-Options", "DENY"), "X-XSS-Protection", "1; mode=block")]

\* log_requests, after call_next returned: the response is logged and returned as it is
log_requests(response) == response

\* what middleware m does to the response that call_next returned to it
on_response(m, response, id) ==
    CASE m = "add_request_id" -> add_request_id(response, id)
      [] m = "add_security_headers" -> add_security_headers(response)
      [] m = "log_requests" -> log_requests(response)
      [] OTHER -> response

\* no request is being served
NoRequest ==
    [pc |-> "idle", i |-> 0, request |-> [method |-> "", content_type |-> <<>>, x_request_id |-> ""],
     request_id |-> "", response |-> Response(0), events |-> <<>>, handled |-> FALSE, pre |-> <<>>]

\* the keys of the two keyed limiters: <<"anonymous", client_id>> and <<"user", user_id>>
Keys == ({"anonymous"} \X Clients) \cup ({"user"} \X UserIds)

\* no thread is inside a keyed limiter, both locks are free, no call has returned
NoKeyedCalls ==
    [lock |-> [anonymous |-> Unlocked, user |-> Unlocked],
     th |-> [t \in 1..NThreads |-> [pc |-> "idle", kind |-> "none", key |-> "none", tmp |-> 0, ret |-> <<>>]],
     allowed |-> [k \in Keys |-> 0]]

\* no task is inside run_query; _current_query_span = None
NoRuns ==
    [th |-> [t \in 1..NTasks |-> [pc |-> "idle", user_id |-> "none", query |-> Str("", FALSE, FALSE, 0),
                                  new_session |-> FALSE, span |-> NoSpan, session |-> 0]],
     current_query_span |-> NoSpan,
     last |-> [op |-> "init", user_id |-> "none", t |-> 0]]

\* no asyncio task is inside get_or_create_session; nothing was counted
InitOther ==
    /\ task = IdleTasks
    /\ adds = [u \in Users |-> 0]
    /\ incs = [u \in UserIds |-> 0]
    /\ allowed_today = 0
    /\ users = <<>>
    /\ web_session = [c \in WebClients |-> EmptyDict]
    /\ reg = [c \in WebClients |-> <<>>]
    /\ signed_in = [c \in WebClients |-> <<>>]
    /\ http = NoRequest
    /\ keyed = NoKeyedCalls
    /\ run = NoRuns

\* the web application as the module is loaded: no per-user entry; runner_ok tells whether
\* initialize_components() set the runner
InitApp(runner_ok) ==
    /\ runner = runner_ok
    /\ user_limits = EmptyDict

(***************************************************************************)
(* SpecGlobal: one caller at a time drives a GlobalDailyLimiter through    *)
(* increment(), get_status() and reset() while the date advances.          *)
(***************************************************************************)
InitGlobal ==
    /\ today = 0
    /\ \E limit \in 1..MaxLimit : global_limiter = GlobalDailyLimiter(limit)
    /\ anonymous_limiter = AnonymousLimiter(1)
    /\ lock_owner = Unlocked
    /\ thread = IdleThreads
    /\ last = NoOp
    /\ InitGlobalHist
    /\ InitAnonHist
    /\ InitSessions(FALSE)
    /\ InitApp(TRUE)
    /\ InitOther

\* the wall clock passes midnight
TickGlobal ==
    /\ today < MaxDay
    /\ today' = today + 1
    /\ last' = [NoOp EXCEPT !.op = "tick"]
    /\ fresh' = FALSE
    /\ calls' = 0
    /\ awaiting_first' = TRUE
    /\ count_at_tick' = global_limiter.count
    /\ fired' = ZeroFired
    /\ fired_since_reset' = ZeroFired
    /\ reached' = {}
    /\ reached_today' = {}
    /\ resets_today' = 0
    /\ allowed_today' = 0
    /\ UNCHANGED <<limiterVars, threadVars, anonHist, sessionVars, goc_prev, appVars, task, adds, incs, authVars, http, keyed, run>>

\* limiter.increment()
GIncrement ==
    /\ fresh => calls < global_limiter.daily_limit + MaxExtraCalls
    /\ LET r == Global_increment(global_limiter) IN
        /\ global_limiter' = r.lim
        /\ last' = [op |-> "increment", arg |-> None, ret |-> r.ret, warned |-> r.warned,
                    first_after_tick |-> awaiting_first,
                    stale |-> needs_reset(global_limiter),
                    reached_before |-> reached,
                    reached_today_before |-> reached_today,
                    pre |-> global_limiter]
        /\ fired' = AddFired(fired, r.warned)
        /\ fired_since_reset' = AddFired(fired_since_reset, r.warned)
        /\ reached' = IF r.ret[1] THEN reached \cup ThresholdsReached(r.lim, r.ret[2]) ELSE reached
        /\ reached_today' = IF r.ret[1] THEN reached_today \cup ThresholdsReached(r.lim, r.ret[2])
                                        ELSE reached_today
        /\ allowed_today' = IF r.ret[1] THEN allowed_today + 1 ELSE allowed_today
    /\ calls' = IF fresh THEN calls + 1 ELSE 0
    /\ awaiting_first' = FALSE
    /\ UNCHANGED <<today, anonymous_limiter, threadVars, fresh, count_at_tick, resets_today, anonHist,
                   sessionVars, goc_prev, appVars, task, adds, incs, authVars, http, keyed, run>>

\* limiter.get_status()
GGetStatus ==
    /\ LET r == Global_get_status(global_limiter) IN
        /\ global_limiter' = r.lim
        /\ last' = [NoOp EXCEPT !.op = "get_status", !.ret = r.ret,
                                !.stale = needs_reset(global_limiter),
                                !.pre = global_limiter]
    /\ UNCHANGED <<today, anonymous_limiter, threadVars, globalHist, anonHist, sessionVars, goc_prev, appVars, otherVars>>

\* GET /api/rate-limit-status: the global status for an anonymous caller, the per-user
\* status for a signed-in one
GRateLimitStatus(current_user) ==
    /\ IF current_user # None
       THEN LET r == get_user_rate_limit(user_limits, current_user, UserDailyLimit) IN
            /\ user_limits' = r.limits
            /\ last' = [NoOp EXCEPT !.op = "rate_limit_status", !.arg = current_user,
                                    !.ret = r.ret, !.stale = needs_reset(global_limiter),
                                    !.pre = global_limiter]
            /\ UNCHANGED global_limiter
       ELSE LET r == Global_get_status(global_limiter) IN
            /\ global_limiter' = r.lim
            /\ last' = [NoOp EXCEPT !.op = "rate_limit_status", !.arg = current_user,
                                    !.ret = r.ret, !.stale = needs_reset(global_limiter),
                                    !.pre = global_limiter]
            /\ UNCHANGED user_limits
    /\ UNCHANGED <<today, anonymous_limiter, threadVars, globalHist, anonHist, sessionVars, goc_prev, runner, otherVars>>

\* limiter.reset()
GReset ==
    /\ resets_today < MaxResets
    /\ global_limiter' = Global_reset(global_limiter)
    /\ last' = [NoOp EXCEPT !.op = "reset"]
    /\ fresh' = FALSE
    /\ calls' = 0
    /\ fired_since_reset' = ZeroFired
    /\ reached' = {}
    /\ resets_today' = resets_today + 1
    /\ UNCHANGED <<today, anonymous_limiter, threadVars, awaiting_first, count_at_tick, fired,
                   reached_today, anonHist, sessionVars, goc_prev, appVars, otherVars>>

vars == <<today, global_limiter, anonymous_limiter, lock_owner, thread, last,
          calls, fresh, awaiting_first, count_at_tick, fired, fired_since_reset,
          reached, reached_today, resets_today, anon_calls, anon_allowed, anon_reset_today,
          session_manager, session_service, opik, uuids, goc_prev, appVars, otherVars>>

NextGlobal ==
    \/ TickGlobal
    \/ GIncrement
    \/ GGetStatus
    \/ GReset
    \/ \E current_user \in AuthUsers \cup {None} : GRateLimitStatus(current_user)

SpecGlobal == InitGlobal /\ [][NextGlobal]_vars

(***************************************************************************)
(* SpecWarn: SpecGlobal for limits under which the four thresholds are     *)
(* reached at four different counts.                                       *)
(***************************************************************************)
WarnLimits == {10, 20}

InitWarn ==
    /\ today = 0
    /\ \E limit \in WarnLimits : global_limiter = GlobalDailyLimiter(limit)
    /\ anonymous_limiter = AnonymousLimiter(1)
    /\ lock_owner = Unlocked
    /\ thread = IdleThreads
    /\ last = NoOp
    /\ InitGlobalHist
    /\ InitAnonHist
    /\ InitSessions(FALSE)
    /\ InitApp(TRUE)
    /\ InitOther

warnFrame == <<anonymous_limiter, threadVars, globalHist, anonHist, sessionVars, goc_prev, appVars, otherVars>>

\* the wall clock passes midnight
WTick ==
    /\ today < MaxDay
    /\ today' = today + 1
    /\ last' = [NoOp EXCEPT !.op = "tick"]
    /\ UNCHANGED <<global_limiter, warnFrame>>

\* global_limiter.increment()
WIncrement ==
    /\ LET r == Global_increment(global_limiter) IN
        /\ global_limiter' = r.lim
        /\ last' = [NoOp EXCEPT !.op = "increment", !.ret = r.ret, !.warned = r.warned,
                                !.stale = needs_reset(global_limiter), !.pre = global_limiter]
    /\ UNCHANGED <<today, warnFrame>>

\* global_limiter.reset()
WReset ==
    /\ global_limiter' = Global_reset(global_limiter)
    /\ last' = [NoOp EXCEPT !.op = "reset", !.pre = global_limiter]
    /\ UNCHANGED <<today, warnFrame>>

NextWarn ==
    \/ WTick
    \/ WIncrement
    \/ GGetStatus
    \/ WReset

SpecWarn == InitWarn /\ [][NextWarn]_vars

(***************************************************************************)
(* SpecClock: SpecGlobal on a machine whose clock can also be set back:    *)
(* datetime.now().date() is the local date of the system clock.            *)
(***************************************************************************)
\* the system clock is set back by a day
GClockBack ==
    /\ today > 0
    /\ today' = today - 1
    /\ last' = [NoOp EXCEPT !.op = "clock_back"]
    /\ UNCHANGED <<limiterVars, threadVars, globalHist, anonHist, sessionVars, goc_prev, appVars, otherVars>>

NextClock ==
    \/ TickGlobal
    \/ GClockBack
    \/ GIncrement
    \/ GGetStatus
    \/ GReset

SpecClock == InitGlobal /\ [][NextClock]_vars

(***************************************************************************)
(* SpecThreads: NThreads threads each call increment() once on a fresh     *)
(* limiter with daily_limit < NThreads, on one day.  Every statement of    *)
(* the body is a step of its own; `with self._lock` brackets them.         *)
(***************************************************************************)
Threads == 1..NThreads

AllThreadVarsIdle == thread = IdleThreads /\ lock_owner = Unlocked

InitThreads ==
    /\ today = 0
    /\ \E limit \in 1..(NThreads - 1) : global_limiter = GlobalDailyLimiter(limit)
    /\ anonymous_limiter = AnonymousLimiter(1)
    /\ AllThreadVarsIdle
    /\ last = NoOp
    /\ InitGlobalHist
    /\ InitAnonHist
    /\ InitSessions(FALSE)
    /\ InitApp(TRUE)
    /\ InitOther

lock_ignored(t) == TRUE

\* threading.Lock.acquire, entering `with self._lock`: blocks while another thread holds it
lock_acquirable(t) == lock_owner = Unlocked

threadFrame == <<today, anonymous_limiter, last, globalHist, anonHist, sessionVars, goc_prev, appVars, otherVars>>

\* with self._lock:
T_Acquire(t) ==
    /\ thread[t].pc = "idle"
    /\ lock_acquirable(t)
    /\ lock_owner' = t
    /\ thread' = [thread EXCEPT ![t].pc = "check_reset"]
    /\ UNCHANGED <<global_limiter, threadFrame>>

\* self._check_reset()
T_CheckReset(t) ==
    /\ thread[t].pc = "check_reset"
    /\ global_limiter' = Global_check_reset(global_limiter)
    /\ thread' = [thread EXCEPT ![t].pc = "check_limit"]
    /\ UNCHANGED <<lock_owner, threadFrame>>

\* if self._count >= self.daily_limit: return False, self._count, 0   (leaving the with block)
T_CheckLimit(t) ==
    /\ thread[t].pc = "check_limit"
    /\ IF global_limiter.count >= global_limiter.daily_limit
       THEN /\ thread' = [thread EXCEPT ![t].pc = "done",
                                        ![t].ret = <<FALSE, global_limiter.count, 0>>]
            /\ lock_owner' = Unlocked
       ELSE /\ thread' = [thread EXCEPT ![t].pc = "load"]
            /\ UNCHANGED lock_owner
    /\ UNCHANGED <<global_limiter, threadFrame>>

\* self._count += 1, the read
T_Load(t) ==
    /\ thread[t].pc = "load"
    /\ thread' = [thread EXCEPT ![t].pc = "store", ![t].tmp = global_limiter.count]
    /\ UNCHANGED <<global_limiter, lock_owner, threadFrame>>

\* self._count += 1, the write
T_Store(t) ==
    /\ thread[t].pc = "store"
    /\ global_limiter' = [global_limiter EXCEPT !.count = thread[t].tmp + 1]
    /\ thread' = [thread EXCEPT ![t].pc = "return"]
    /\ UNCHANGED <<lock_owner, threadFrame>>

\* remaining = ...; self._issue_warning_if_needed(self._count); return True, self._count, remaining
T_Return(t) ==
    /\ thread[t].pc = "return"
    /\ LET c == global_limiter.count IN
        /\ global_limiter' = [global_limiter EXCEPT !.warnings_issued = @ \cup warnings_due(global_limiter, c)]
        /\ thread' = [thread EXCEPT ![t].pc = "done", ![t].ok = TRUE,
                                    ![t].ret = <<TRUE, c, global_limiter.daily_limit - c>>]
    /\ lock_owner' = Unlocked
    /\ UNCHANGED threadFrame

NextThreads ==
    \E t \in Threads :
        \/ T_Acquire(t)
        \/ T_CheckReset(t)
        \/ T_CheckLimit(t)
        \/ T_Load(t)
        \/ T_Store(t)
        \/ T_Return(t)

SpecThreads == InitThreads /\ [][NextThreads]_vars

(***************************************************************************)
(* SpecAnon: one caller at a time drives an AnonymousLimiter through       *)
(* check_and_increment(), get_remaining() and reset() for two clients      *)
(* while the date advances.                                                *)
(***************************************************************************)
InitAnon ==
    /\ today = 0
    /\ global_limiter = GlobalDailyLimiter(1)
    /\ \E limit \in 1..MaxFree : anonymous_limiter = AnonymousLimiter(limit)
    /\ AllThreadVarsIdle
    /\ last = NoOp
    /\ InitGlobalHist
    /\ InitAnonHist
    /\ InitSessions(FALSE)
    /\ InitApp(TRUE)
    /\ InitOther

\* the wall clock passes midnight
TickAnon ==
    /\ today < MaxDay
    /\ today' = today + 1
    /\ last' = [NoOp EXCEPT !.op = "tick"]
    /\ anon_calls' = [c \in Clients |-> 0]
    /\ anon_allowed' = [c \in Clients |-> 0]
    /\ anon_reset_today' = FALSE
    /\ UNCHANGED <<limiterVars, threadVars, globalHist, sessionVars, goc_prev, appVars, otherVars>>

\* anonymous_limiter.check_and_increment(client_id)
ACheckAndIncrement(client_id) ==
    /\ anon_calls[client_id] < anonymous_limiter.free_limit + MaxExtraCalls
    /\ LET r == Anon_check_and_increment(anonymous_limiter, client_id) IN
        /\ anonymous_limiter' = r.lim
        /\ last' = [NoOp EXCEPT !.op = "check_and_increment", !.arg = client_id, !.ret = r.ret,
                                !.stale = needs_reset(anonymous_limiter),
                                !.pre = anonymous_limiter]
        /\ anon_allowed' = [anon_allowed EXCEPT ![client_id] = @ + (IF r.ret[1] THEN 1 ELSE 0)]
    /\ anon_calls' = [anon_calls EXCEPT ![client_id] = @ + 1]
    /\ UNCHANGED <<today, global_limiter, threadVars, globalHist, anon_reset_today, sessionVars, goc_prev, appVars, otherVars>>

\* anonymous_limiter.get_remaining(client_id)
AGetRemaining(client_id) ==
    /\ LET r == Anon_get_remaining(anonymous_limiter, client_id) IN
        /\ anonymous_limiter' = r.lim
        /\ last' = [NoOp EXCEPT !.op = "get_remaining", !.arg = client_id, !.ret = r.ret,
                                !.stale = needs_reset(anonymous_limiter),
                                !.pre = anonymous_limiter]
    /\ UNCHANGED <<today, global_limiter, threadVars, globalHist, anonHist, sessionVars, goc_prev, appVars, otherVars>>

\* anonymous_limiter.reset()
AReset ==
    /\ ~anon_reset_today
    /\ anonymous_limiter' = Anon_reset(anonymous_limiter)
    /\ last' = [NoOp EXCEPT !.op = "reset", !.pre = anonymous_limiter]
    /\ anon_reset_today' = TRUE
    /\ UNCHANGED <<today, global_limiter, threadVars, globalHist, anon_calls, anon_allowed,
                   sessionVars, goc_prev, appVars, otherVars>>

NextAnon ==
    \/ TickAnon
    \/ \E c \in Clients : ACheckAndIncrement(c)
    \/ \E c \in Clients : AGetRemaining(c)
    \/ AReset

SpecAnon == InitAnon /\ [][NextAnon]_vars

(***************************************************************************)
(* SpecSession: one caller at a time drives a SessionManager through its   *)
(* public methods for two users; each call runs to completion before the   *)
(* next starts.  create_session and the tracing calls may raise.           *)
(***************************************************************************)
\* the exchanges stored in the query logs of all users
RECURSIVE TotalLogged(_)
TotalLogged(logs) ==
    IF DOMAIN logs = {} THEN 0
    ELSE LET u == CHOOSE x \in DOMAIN logs : TRUE IN Len(logs[u]) + TotalLogged(Del(logs, u))

\* a run creates at most MaxSessions sessions, draws at most MaxSessions uuid4 values
\* (one per session, or by get_conversation_id) and records at most MaxLog exchanges
Bounded(w) ==
    /\ Len(w.service) <= MaxSessions
    /\ w.uuids <= MaxSessions
    /\ TotalLogged(w.sm.conversation_queries) <= MaxLog

SetWorld(w) ==
    /\ uuids' = w.uuids
    /\ session_service' = w.service
    /\ opik' = w.opik
    /\ session_manager' = w.sm
    /\ Bounded(w)

sessionFrame == <<today, limiterVars, threadVars, globalHist, anonHist, appVars, otherVars>>

\* the queries run_query records: handle_query strips them and rejects the empty ones,
\* run_query skips the dummy ones
RecordedQueries == {strip(q) : q \in {x \in Queries : ~is_empty(strip(x)) /\ ~is_dummy_query(x)}}

InitSession ==
    /\ today = 0
    /\ global_limiter = GlobalDailyLimiter(1)
    /\ anonymous_limiter = AnonymousLimiter(1)
    /\ AllThreadVarsIdle
    /\ last = NoOp
    /\ InitGlobalHist
    /\ InitAnonHist
    /\ \E opik_client \in BOOLEAN : InitSessions(opik_client)
    /\ InitApp(TRUE)
    /\ InitOther

\* await session_manager.get_or_create_session(user_id)
SGetOrCreate(user_id, create_ok, trace_ok) ==
    /\ LET r == get_or_create_session(World, user_id, create_ok, trace_ok) IN
        /\ SetWorld(r.w)
        /\ goc_prev' =
              IF r.raised THEN goc_prev
              ELSE [goc_prev EXCEPT ![user_id] =
                      IF @.set THEN [@ EXCEPT !.ret = r.ret, !.again = TRUE]
                      ELSE [set |-> TRUE, ret |-> r.ret, again |-> FALSE]]
    /\ UNCHANGED <<sessionFrame, last>>

\* await session_manager.create_new_session(user_id)
SCreateNew(user_id, create_ok, end_ok, trace_ok) ==
    /\ SetWorld(create_new_session(World, user_id, create_ok, end_ok, trace_ok).w)
    /\ goc_prev' = [goc_prev EXCEPT ![user_id] = NoPrev]
    /\ UNCHANGED <<sessionFrame, last>>

\* session_manager.get_conversation_id(user_id)
SGetConversationId(user_id) ==
    /\ SetWorld(get_conversation_id(World, user_id).w)
    /\ UNCHANGED <<sessionFrame, last, goc_prev, appVars, otherVars>>

\* session_manager.add_query_to_conversation(user_id, query, response)
SAddQuery(user_id, query, response) ==
    /\ SetWorld(add_query_to_conversation(World, user_id, query, response))
    /\ UNCHANGED <<sessionFrame, last, goc_prev, appVars, otherVars>>

\* session_manager.clear_session(user_id)
SClearSession(user_id) ==
    /\ SetWorld(clear_session(World, user_id))
    /\ goc_prev' = [goc_prev EXCEPT ![user_id] = NoPrev]
    /\ UNCHANGED <<sessionFrame, last>>

\* session_manager.end_conversation(user_id, feedback)
SEndConversation(user_id, end_ok) ==
    /\ SetWorld(end_conversation(World, user_id, end_ok))
    /\ goc_prev' = [goc_prev EXCEPT ![user_id] = NoPrev]
    /\ UNCHANGED <<sessionFrame, last>>

NextSession ==
    \E user_id \in Users :
        \/ \E create_ok, trace_ok \in BOOLEAN : SGetOrCreate(user_id, create_ok, trace_ok)
        \/ \E create_ok, end_ok, trace_ok \in BOOLEAN : SCreateNew(user_id, create_ok, end_ok, trace_ok)
        \/ SGetConversationId(user_id)
        \/ \E query \in RecordedQueries, response \in Responses : SAddQuery(user_id, query, response)
        \/ SClearSession(user_id)
        \/ \E end_ok \in BOOLEAN : SEndConversation(user_id, end_ok)

SpecSession == InitSession /\ [][NextSession]_vars

(***************************************************************************)
(* SpecCalls: one caller drives the SessionManager through its public      *)
(* methods for one user, one call at a time, and the last call is          *)
(* recorded with its inputs, its result and the bundle it started from.    *)
(* Two different queries are recorded, so the order of a log shows.        *)
(***************************************************************************)
CallUsers == {"web_user"}

\* the texts add_query_to_conversation is called with
LogQueries == RecordedQueries \cup {Str("book a hotel", FALSE, FALSE, 12)}

\* what add_query_to_conversation stores of a query / response pair
StoredEntry(query, response) ==
    [query |-> truncate(query, QueryStoreLen),
     response |-> IF is_empty(response) THEN Str("No response", FALSE, TRUE, 11)
                  ELSE truncate(response, ResponseStoreLen)]

\* a run creates at most MaxSessions sessions, draws at most MaxSessions uuid4 values
\* and keeps at most MaxLog + 1 exchanges
BoundedCalls(w) ==
    /\ Len(w.service) <= MaxSessions
    /\ w.uuids <= MaxSessions
    /\ TotalLogged(w.sm.conversation_queries) <= MaxLog + 1

\* the call leaves the bundle w
Leaves(w) ==
    /\ BoundedCalls(w)
    /\ uuids' = w.uuids
    /\ session_service' = w.service
    /\ opik' = w.opik
    /\ session_manager' = w.sm

\* the record of a call: r is its result [w, ret, raised]
Call(op, user_id, create_ok, r) ==
    [NoOp EXCEPT !.op = op, !.arg = [user_id |-> user_id, create_ok |-> create_ok],
                 !.ret = [ret |-> r.ret, raised |-> r.raised], !.pre = World]

callFrame == <<today, limiterVars, threadVars, globalHist, anonHist, appVars, task, incs, allowed_today, authVars, http, keyed, run, goc_prev>>

InitCalls ==
    /\ today = 0
    /\ global_limiter = GlobalDailyLimiter(1)
    /\ anonymous_limiter = AnonymousLimiter(1)
    /\ AllThreadVarsIdle
    /\ last = NoOp
    /\ InitGlobalHist
    /\ InitAnonHist
    /\ \E opik_client \in BOOLEAN : InitSessions(opik_client)
    /\ InitApp(TRUE)
    /\ InitOther

\* how the await of session_service.create_session ends: it returns a session, it raises, or
\* the awaiting task is cancelled and CancelledError is raised at the await
CreateOutcomes == {"returned", "raised", "cancelled"}

\* await session_manager.get_or_create_session(user_id)
CGetOrCreate(user_id, create, trace_ok) ==
    /\ LET create_ok == (create = "returned")
           r == get_or_create_session(World, user_id, create_ok, trace_ok) IN
        /\ Leaves(r.w)
        /\ last' = [Call("get_or_create_session", user_id, create_ok, r) EXCEPT
                        !.arg = [user_id |-> user_id, create_ok |-> create_ok, create |-> create]]
        /\ adds' = IF Len(r.w.service) > Len(session_service)
                   THEN [adds EXCEPT ![user_id] = 0] ELSE adds
    /\ UNCHANGED callFrame

\* await session_manager.create_new_session(user_id)
CCreateNew(user_id, create_ok, end_ok, trace_ok) ==
    /\ LET r == create_new_session(World, user_id, create_ok, end_ok, trace_ok) IN
        /\ Leaves(r.w)
        /\ last' = Call("create_new_session", user_id, create_ok, r)
        /\ adds' = IF Len(r.w.service) > Len(session_service)
                   THEN [adds EXCEPT ![user_id] = 0] ELSE adds
    /\ UNCHANGED callFrame

\* session_manager.get_conversation_id(user_id)
CGetConversationId(user_id) ==
    /\ LET r == get_conversation_id(World, user_id) IN
        /\ Leaves(r.w)
        /\ last' = Call("get_conversation_id", user_id, TRUE, r)
    /\ UNCHANGED <<callFrame, adds>>

\* session_manager.add_query_to_conversation(user_id, query, response)
CAddQuery(user_id, query, response) ==
    /\ Leaves(add_query_to_conversation(World, user_id, query, response))
    /\ last' = [NoOp EXCEPT !.op = "add_query_to_conversation",
                            !.arg = [user_id |-> user_id, query |-> query, response |-> response],
                            !.ret = [ret |-> None, raised |-> FALSE], !.pre = World]
    /\ adds' = [adds EXCEPT ![user_id] = @ + 1]
    /\ UNCHANGED callFrame

\* session_manager.clear_session(user_id)
CClearSession(user_id) ==
    /\ Leaves(clear_session(World, user_id))
    /\ last' = Call("clear_session", user_id, TRUE, Returned(World, None))
    /\ UNCHANGED <<callFrame, adds>>

\* session_manager.end_conversation(user_id, feedback)
CEndConversation(user_id, end_ok) ==
    /\ Leaves(end_conversation(World, user_id, end_ok))
    /\ last' = Call("end_conversation", user_id, TRUE, Returned(World, None))
    /\ adds' = [adds EXCEPT ![user_id] = 0]
    /\ UNCHANGED callFrame

\* the texts run_query is called with: a query, '  New Session ' and 'new_session'
CallQueries == { Str("plan a trip", FALSE, TRUE, 250), Str("new session", TRUE, TRUE, 11),
                 Str("new_session", FALSE, FALSE, 11) }

\* the text is 'new session' or 'new_session' once trimmed and put in lower case
DummyText(query) == query.body \in {"new session", "new_session"}

\* await runner.run_query(query, user_id, create_new_session), run alone
CRunQuery(user_id, query, new_session, response, create_ok) ==
    /\ LET r == run_query(World, query, user_id, new_session, response, create_ok, TRUE, TRUE) IN
        /\ Leaves(r.w)
        /\ last' = [NoOp EXCEPT !.op = "run_query",
                        !.arg = [user_id |-> user_id, query |-> query, new_session |-> new_session,
                                 create_ok |-> create_ok],
                        !.ret = [raised |-> r.raised,
                                 span |-> run_query_span(World, query, user_id, new_session,
                                                         create_ok, TRUE, TRUE)],
                        !.pre = World]
        /\ adds' = [adds EXCEPT ![user_id] =
                        (IF Len(r.w.service) > Len(session_service) THEN 0 ELSE @)
                        + (IF r.raised \/ DummyText(query) THEN 0 ELSE 1)]
    /\ UNCHANGED callFrame

NextCalls ==
    \E user_id \in CallUsers :
        \/ \E create \in CreateOutcomes, trace_ok \in BOOLEAN : CGetOrCreate(user_id, create, trace_ok)
        \/ \E create_ok, end_ok, trace_ok \in BOOLEAN : CCreateNew(user_id, create_ok, end_ok, trace_ok)
        \/ CGetConversationId(user_id)
        \/ \E query \in LogQueries, response \in Responses : CAddQuery(user_id, query, response)
        \/ CClearSession(user_id)
        \/ \E end_ok \in BOOLEAN : CEndConversation(user_id, end_ok)
        \/ \E query \in CallQueries, new_session, create_ok \in BOOLEAN, response \in Responses :
              CRunQuery(user_id, query, new_session, response, create_ok)

SpecCalls == InitCalls /\ [][NextCalls]_vars

(***************************************************************************)
(* SpecAsync: get_or_create_session called from several asyncio tasks of   *)
(* one event loop.  A task runs until its next await; the only await of    *)
(* get_or_create_session is session_service.create_session (line 59), so   *)
(* the test of line 58 and the writes of lines 63-71 are two steps with    *)
(* other tasks' steps possible in between.                                 *)
(***************************************************************************)
asyncFrame == <<today, limiterVars, threadVars, globalHist, anonHist, appVars, adds, incs, allowed_today, authVars, http, keyed, run, goc_prev, last>>

InitAsync ==
    /\ today = 0
    /\ global_limiter = GlobalDailyLimiter(1)
    /\ anonymous_limiter = AnonymousLimiter(1)
    /\ AllThreadVarsIdle
    /\ last = NoOp
    /\ InitGlobalHist
    /\ InitAnonHist
    /\ \E opik_client \in BOOLEAN : InitSessions(opik_client)
    /\ InitApp(TRUE)
    /\ InitOther

\* lines 58-59 and 75-79: the task tests current_sessions; it returns the stored session, or
\* awaits create_session
TCall(t, user_id) ==
    /\ task[t].pc = "idle"
    /\ task' = [task EXCEPT ![t] =
            IF user_id \notin DOMAIN session_manager.current_sessions
            THEN [pc |-> "awaiting", user_id |-> user_id, session |-> 0]
            ELSE [pc |-> "done", user_id |-> user_id,
                  session |-> session_manager.current_sessions[user_id]]]
    /\ UNCHANGED <<sessionVars, asyncFrame>>

\* lines 59-79: create_session returned; the task stores the session and returns it
TCreated(t, trace_ok) ==
    /\ task[t].pc = "awaiting"
    /\ LET r == install_session(World, task[t].user_id, trace_ok) IN
        /\ Len(r.w.service) <= MaxSessions
        /\ uuids' = r.w.uuids
        /\ session_service' = r.w.service
        /\ opik' = r.w.opik
        /\ session_manager' = r.w.sm
        /\ task' = [task EXCEPT ![t].pc = "done", ![t].session = r.ret]
    /\ UNCHANGED asyncFrame

\* line 59: create_session raised; the exception leaves get_or_create_session
TFailed(t) ==
    /\ task[t].pc = "awaiting"
    /\ task' = [task EXCEPT ![t].pc = "raised"]
    /\ UNCHANGED <<sessionVars, asyncFrame>>

\* line 59: the task was cancelled while suspended; CancelledError leaves get_or_create_session
TCancelled(t) ==
    /\ task[t].pc = "awaiting"
    /\ task' = [task EXCEPT ![t].pc = "cancelled"]
    /\ UNCHANGED <<sessionVars, asyncFrame>>

\* the caller has taken the result; the task can serve the next request
TFinish(t) ==
    /\ task[t].pc \in {"done", "raised", "cancelled"}
    /\ task' = [task EXCEPT ![t] = IdleTasks[t]]
    /\ UNCHANGED <<sessionVars, asyncFrame>>

NextAsync ==
    \E t \in 1..NTasks :
        \/ \E user_id \in Users : TCall(t, user_id)
        \/ \E trace_ok \in BOOLEAN : TCreated(t, trace_ok)
        \/ TFailed(t)
        \/ TCancelled(t)
        \/ TFinish(t)

SpecAsync == InitAsync /\ [][NextAsync]_vars

(***************************************************************************)
(* SpecUser: the per-user limiter of auth.py, called for two users with    *)
(* daily_limit = MaxUserLimit, one call at a time (each body runs under    *)
(* _user_limits_lock), over several days.                                  *)
(***************************************************************************)
userFrame == <<limiterVars, threadVars, globalHist, anonHist, sessionVars, goc_prev, runner, task, adds, allowed_today, authVars, http, keyed, run>>

InitUser ==
    /\ today = 0
    /\ global_limiter = GlobalDailyLimiter(1)
    /\ anonymous_limiter = AnonymousLimiter(1)
    /\ AllThreadVarsIdle
    /\ last = NoOp
    /\ InitGlobalHist
    /\ InitAnonHist
    /\ InitSessions(FALSE)
    /\ InitApp(TRUE)
    /\ InitOther

\* the wall clock passes midnight
TickUser ==
    /\ today < MaxDay
    /\ today' = today + 1
    /\ last' = [NoOp EXCEPT !.op = "tick"]
    /\ incs' = [u \in UserIds |-> 0]
    /\ UNCHANGED <<user_limits, userFrame>>

\* the last call was get_user_rate_limit(user_id)
StatusJustRead(user_id) == last.op = "get_user_rate_limit" /\ last.arg.user_id = user_id

\* get_user_rate_limit(user_id, daily_limit)
UGetUserRateLimit(user_id, daily_limit) ==
    /\ LET r == get_user_rate_limit(user_limits, user_id, daily_limit) IN
        /\ user_limits' = r.limits
        /\ last' = [NoOp EXCEPT !.op = "get_user_rate_limit",
                                !.arg = [user_id |-> user_id, daily_limit |-> daily_limit,
                                         after_status |-> StatusJustRead(user_id)],
                                !.ret = r.ret, !.pre = user_limits]
    /\ UNCHANGED <<today, incs, userFrame>>

\* increment_user_rate_limit(user_id, daily_limit)
UIncrementUserRateLimit(user_id, daily_limit) ==
    /\ incs[user_id] < daily_limit + MaxExtraCalls
    /\ LET r == increment_user_rate_limit(user_limits, user_id, daily_limit) IN
        /\ user_limits' = r.limits
        /\ last' = [NoOp EXCEPT !.op = "increment_user_rate_limit",
                                !.arg = [user_id |-> user_id, daily_limit |-> daily_limit,
                                         after_status |-> StatusJustRead(user_id)],
                                !.ret = r.ret, !.pre = user_limits]
    /\ incs' = [incs EXCEPT ![user_id] = @ + 1]
    /\ UNCHANGED <<today, userFrame>>

NextUser ==
    \/ TickUser
    \/ \E user_id \in UserIds : UGetUserRateLimit(user_id, MaxUserLimit)
    \/ \E user_id \in UserIds : UIncrementUserRateLimit(user_id, MaxUserLimit)

SpecUser == InitUser /\ [][NextUser]_vars

(***************************************************************************)
(* SpecClient: anonymous requests on one day, each charged to the entry    *)
(* get_client_identifier names (handle_query, lines 252-253).              *)
(***************************************************************************)
ForwardedHeaders ==
    {<<>>,
     <<Piece("", FALSE)>>,
     <<Piece("", TRUE)>>,
     <<Piece("1.2.3.4", FALSE)>>,
     <<Piece("1.2.3.4", TRUE), Piece("5.6.7.8", TRUE)>>,
     <<Piece("5.6.7.8", FALSE), Piece("1.2.3.4", FALSE)>>}

RealIpHeaders == {<<>>, <<Piece("", FALSE)>>, <<Piece("5.6.7.8", FALSE)>>, <<Piece("5.6.7.8", TRUE)>>}

Peers == {"9.9.9.9"}

Requests == [forwarded : ForwardedHeaders, real_ip : RealIpHeaders, peer : Peers]

clientFrame == <<today, global_limiter, threadVars, globalHist, anonHist, sessionVars, goc_prev, appVars, otherVars>>

InitClient ==
    /\ today = 0
    /\ global_limiter = GlobalDailyLimiter(1)
    /\ \E limit \in 1..MaxFree : anonymous_limiter = AnonymousLimiter(limit)
    /\ AllThreadVarsIdle
    /\ last = NoOp
    /\ InitGlobalHist
    /\ InitAnonHist
    /\ InitSessions(FALSE)
    /\ InitApp(TRUE)
    /\ InitOther

\* client_id = get_client_identifier(request);
\* allowed, anon_count, anon_remaining = anonymous_limiter.check_and_increment(client_id)
CCharge(request) ==
    /\ LET client_id == get_client_identifier(request)
           r == Anon_check_and_increment(anonymous_limiter, client_id) IN
        /\ anonymous_limiter' = r.lim
        /\ last' = [NoOp EXCEPT !.op = "charge", !.arg = request,
                                !.ret = [client_id |-> client_id, allowed |-> r.ret[1]],
                                !.pre = anonymous_limiter]
    /\ UNCHANGED clientFrame

NextClient == \E request \in Requests : CCharge(request)

SpecClient == InitClient /\ [][NextClient]_vars

(***************************************************************************)
(* SpecAuth: the account routes.  Every web client sends one request at a  *)
(* time; requests of different clients are served concurrently by workers  *)
(* that share the database, so another client's request can run between    *)
(* the email lookup of register_user and its INSERT.                       *)
(***************************************************************************)
Email(local, domain, upper) == [local |-> local, domain |-> domain, upper |-> upper]

Emails == {Email("ann", "x.io", FALSE), Email("ann", "x.io", TRUE), Email("bob", "x.io", FALSE)}

Passwords == {"secret1", "secret2", "short"}

Names == {Text("", FALSE), Text("Ann", TRUE)}

authFrame == <<today, limiterVars, threadVars, globalHist, anonHist, sessionVars, goc_prev, appVars, task, adds, incs, allowed_today, http, keyed, run>>

InitAuth ==
    /\ today = 0
    /\ global_limiter = GlobalDailyLimiter(1)
    /\ anonymous_limiter = AnonymousLimiter(1)
    /\ AllThreadVarsIdle
    /\ last = NoOp
    /\ InitGlobalHist
    /\ InitAnonHist
    /\ InitSessions(FALSE)
    /\ InitApp(TRUE)
    /\ InitOther

\* the response of an account route, and the table before it
AuthResponse(op, client, email, status, user, error) ==
    [NoOp EXCEPT !.op = op, !.arg = [client |-> client, email |-> email],
                 !.ret = [status |-> status, success |-> (error = None), user |-> user, error |-> error],
                 !.pre = users]

\* POST /api/register up to the email lookup of register_user: the request is refused by
\* the RegisterRequest validation (422), or answered with the error of register_user, or
\* goes on to create_user
ApiRegisterLookup(client, email, password, name) ==
    /\ reg[client] = <<>>
    /\ IF Len(password) < MinPasswordLen
       THEN /\ last' = AuthResponse("api_register", client, email, 422, <<>>, "validation")
            /\ UNCHANGED reg
       ELSE IF get_user_by_email(users, email) # 0
       THEN /\ last' = AuthResponse("api_register", client, email, 200, <<>>,
                                    register_user(users, email, password, name).error)
            /\ UNCHANGED reg
       ELSE /\ last' = [NoOp EXCEPT !.op = "lookup"]
            /\ reg' = [reg EXCEPT ![client] = <<[email |-> email, password |-> password, name |-> name]>>]
    /\ UNCHANGED <<users, web_session, signed_in, authFrame>>

\* POST /api/register from create_user on: the INSERT, then set_session_user
ApiRegisterInsert(client) ==
    /\ reg[client] # <<>>
    /\ LET q == reg[client][1]
           r == create_user(users, q.email, q.password, q.name) IN
        IF r.raised
        THEN /\ last' = AuthResponse("api_register", client, q.email, 200, <<>>, "Registration failed")
             /\ UNCHANGED <<users, web_session, signed_in>>
        ELSE /\ users' = r.table
             /\ web_session' = [web_session EXCEPT ![client] = set_session_user(@, r.user[1])]
             /\ signed_in' = [signed_in EXCEPT ![client] = r.user]
             /\ last' = AuthResponse("api_register", client, q.email, 200, r.user, None)
    /\ reg' = [reg EXCEPT ![client] = <<>>]
    /\ UNCHANGED authFrame

\* POST /api/login
ApiLogin(client, email, password) ==
    /\ reg[client] = <<>>
    /\ LET r == login_user(users, email, password) IN
        /\ last' = AuthResponse("api_login", client, email, 200, r.user, r.error)
        /\ IF r.error # None
           THEN UNCHANGED <<web_session, signed_in>>
           ELSE /\ web_session' = [web_session EXCEPT ![client] = set_session_user(@, r.user[1])]
                /\ signed_in' = [signed_in EXCEPT ![client] = r.user]
    /\ UNCHANGED <<users, reg, authFrame>>

\* POST /api/logout
ApiLogout(client) ==
    /\ reg[client] = <<>>
    /\ web_session' = [web_session EXCEPT ![client] = logout_user(@)]
    /\ signed_in' = [signed_in EXCEPT ![client] = <<>>]
    /\ last' = AuthResponse("api_logout", client, None, 200, <<>>, None)
    /\ UNCHANGED <<users, reg, authFrame>>

\* GET /api/user
GetUser(client) ==
    /\ reg[client] = <<>>
    /\ LET user == get_current_user(web_session[client]) IN
        last' = [AuthResponse("get_user", client, None, 200, user, None) EXCEPT
                    !.ret = [authenticated |-> user # <<>>, user |-> user]]
    /\ UNCHANGED <<authVars, authFrame>>

NextAuth ==
    \E client \in WebClients :
        \/ \E email \in Emails, password \in Passwords, name \in Names :
                ApiRegisterLookup(client, email, password, name)
        \/ ApiRegisterInsert(client)
        \/ \E email \in Emails, password \in Passwords : ApiLogin(client, email, password)
        \/ ApiLogout(client)
        \/ GetUser(client)

SpecAuth == InitAuth /\ [][NextAuth]_vars

(***************************************************************************)
(* SpecApp: the web application on one calendar day.  Requests arrive one  *)
(* at a time at POST /api/query, POST /api/feedback and                    *)
(* GET /api/rate-limit-status, from anonymous clients and a signed-in      *)
(* user; each handler runs to completion before the next request.  The     *)
(* requests name the default user_id, tracing is configured and its calls  *)
(* succeed, create_session may raise.  (The change of date is followed in  *)
(* SpecGlobal and SpecAnon, failing tracing calls in SpecSession.)         *)
(***************************************************************************)
Feedbacks == {"satisfied", "not_satisfied", "Satisfied"}

\* QueryRequest.user_id / FeedbackRequest.user_id: the default, "web_user"
RequestUsers == {"web_user"}

\* the outcomes of the tracing calls
TracingOutcomes == {TRUE}

InitApplication ==
    /\ today = 0
    /\ global_limiter = GlobalDailyLimiter(MaxLimit)
    /\ anonymous_limiter = AnonymousLimiter(MaxFree)
    /\ AllThreadVarsIdle
    /\ last = NoOp
    /\ InitGlobalHist
    /\ InitAnonHist
    /\ InitSessions(TRUE)
    /\ \E runner_ok \in BOOLEAN : InitApp(runner_ok)
    /\ InitOther

\* app.build_rate_limit_headers: the two headers that tell the caller apart
\* (the X-RateLimit-* headers repeat get_global_status())
build_rate_limit_headers(is_authenticated, anon_remaining) ==
    [X_Anonymous_Remaining |-> IF ~is_authenticated THEN anon_remaining ELSE "unlimited",
     X_Authenticated |-> is_authenticated]

appFrame == <<threadVars, globalHist, anon_allowed, anon_reset_today, goc_prev, otherVars>>

\* POST /api/query: handle_query.  client_id is get_client_identifier(request),
\* current_user is get_current_user(request); query, user_id and new_session are the
\* fields of the QueryRequest; response is what the agent answers
handle_query(client_id, current_user, query, user_id, new_session, response, create_ok, end_ok, trace_ok) ==
    LET is_authenticated == current_user # None
        a == Anon_check_and_increment(anonymous_limiter, client_id)
        gate_denied == gate_rejects(is_authenticated, a.ret[1])
        g == Global_increment(global_limiter)
        stripped == strip(query)
        status == response_status(gate_denied, g.ret[1], runner, stripped)
        r == run_query(World, stripped, user_id, new_session, response, create_ok, end_ok, trace_ok)
        \* build_rate_limit_headers(is_authenticated, anon_remaining) is reached when
        \* run_query returned; anon_remaining is unbound for a signed-in user, and the
        \* UnboundLocalError ends in `except Exception`
        success == reaches_runner(status) /\ ~r.raised /\ ~is_authenticated
    IN
    /\ anonymous_limiter' = anonymous_limiter_after(anonymous_limiter, is_authenticated, a.lim, g.ret[1])
    /\ global_limiter' = global_limiter_after(global_limiter, gate_denied, g.lim, success)
    /\ IF reaches_runner(status) THEN SetWorld(r.w) ELSE UNCHANGED sessionVars
    /\ last' = [NoOp EXCEPT !.op = "handle_query",
                            !.arg = IF is_authenticated THEN current_user ELSE client_id,
                            !.ret = [status |-> status, success |-> success,
                                     agent_invoked |-> reaches_runner(status) /\ ~r.raised,
                                     headers |-> IF success
                                                 THEN build_rate_limit_headers(is_authenticated, a.ret[3])
                                                 ELSE None]]
    /\ anon_calls' = IF is_authenticated THEN anon_calls
                     ELSE [anon_calls EXCEPT ![client_id] =
                              Min(@ + 1, anonymous_limiter.free_limit + 1)]
    /\ UNCHANGED <<today, runner, user_limits, threadVars, globalHist, anon_allowed, anon_reset_today,
                   goc_prev, task, adds, incs, allowed_today, authVars, keyed, run>>

\* POST /api/query, served without the middleware steps
HandleQuery(client_id, current_user, query, user_id, new_session, response, create_ok, end_ok, trace_ok) ==
    /\ handle_query(client_id, current_user, query, user_id, new_session, response, create_ok, end_ok, trace_ok)
    /\ UNCHANGED http

ends_conversation_on_any_feedback(runner_ok, feedback) == runner_ok

\* handle_feedback: `if runner and request.feedback == "satisfied"`
ends_conversation(runner_ok, feedback) == runner_ok /\ feedback = "satisfied"

\* POST /api/feedback: handle_feedback
HandleFeedback(user_id, feedback, end_ok) ==
    /\ IF ends_conversation(runner, feedback)
       THEN SetWorld(end_conversation(World, user_id, end_ok))
       ELSE UNCHANGED sessionVars
    /\ last' = [NoOp EXCEPT !.op = "handle_feedback", !.arg = user_id,
                            !.ret = [feedback |-> feedback, success |-> TRUE]]
    /\ UNCHANGED <<today, limiterVars, anon_calls, appVars, appFrame>>

\* GET /api/rate-limit-status: rate_limit_status
RateLimitStatus(current_user) ==
    /\ IF current_user # None
       THEN LET r == get_user_rate_limit(user_limits, current_user, UserDailyLimit) IN
            /\ user_limits' = r.limits
            /\ last' = [NoOp EXCEPT !.op = "rate_limit_status", !.arg = current_user,
                                    !.ret = r.ret]
            /\ UNCHANGED global_limiter
       ELSE LET r == Global_get_status(global_limiter) IN
            /\ global_limiter' = r.lim
            /\ last' = [NoOp EXCEPT !.op = "rate_limit_status", !.arg = current_user,
                                    !.ret = r.ret]
            /\ UNCHANGED user_limits
    /\ UNCHANGED <<today, anonymous_limiter, sessionVars, anon_calls, runner, appFrame>>

NextApp ==
    \/ \E client_id \in Clients, current_user \in AuthUsers \cup {None}, query \in Queries,
          user_id \in RequestUsers, new_session \in BOOLEAN, response \in Responses,
          create_ok \in BOOLEAN, end_ok, trace_ok \in TracingOutcomes :
            HandleQuery(client_id, current_user, query, user_id, new_session, response,
                        create_ok, end_ok, trace_ok)
    \/ \E user_id \in RequestUsers, feedback \in Feedbacks, end_ok \in TracingOutcomes :
            HandleFeedback(user_id, feedback, end_ok)
    \/ \E current_user \in AuthUsers \cup {None} : RateLimitStatus(current_user)

SpecApp == InitApplication /\ [][NextApp]_vars

(***************************************************************************)
(* SpecHttp: one HTTP request at a time travels through the middleware     *)
(* stack of app.py to its route and back.                                  *)
(***************************************************************************)
\* the Content-Type headers the clients send
ContentTypes ==
    { <<>>,
      <<"application/", "json">>,
      <<"application/", "json", "; charset=utf-8">>,
      <<"Application/", "JSON">>,
      <<"text/", "plain">>,
      <<"multipart/", "form-data", "; boundary=x">>,
      <<"application/", "x-www-form-urlencoded">> }

\* the X-Request-ID headers the clients send ("" when absent or empty)
ClientRequestIds == {"", "client-id-1"}

\* POST is a request to /api/query, GET one to /health; no route takes PUT or PATCH
HttpRequests ==
    [method : {"GET", "POST", "PUT", "PATCH"}, content_type : ContentTypes, x_request_id : ClientRequestIds]

\* the rate-limit counters and the session state
Snapshot ==
    [global_limiter |-> global_limiter, anonymous_limiter |-> anonymous_limiter,
     user_limits |-> user_limits, world |-> World]

httpFrame == <<today, limiterVars, anon_calls, appVars, sessionVars, threadVars, globalHist, anon_allowed, anon_reset_today, goc_prev, task, adds, incs, allowed_today, authVars, keyed, run, last>>

InitHttp ==
    /\ today = 0
    /\ global_limiter = GlobalDailyLimiter(2)
    /\ anonymous_limiter = AnonymousLimiter(2)
    /\ AllThreadVarsIdle
    /\ last = NoOp
    /\ InitGlobalHist
    /\ InitAnonHist
    /\ InitSessions(TRUE)
    /\ InitApp(TRUE)
    /\ InitOther

\* the server hands a request to the outermost middleware
HReceive(request) ==
    /\ http.pc \in {"idle", "done"}
    /\ http' = [NoRequest EXCEPT !.pc = "request", !.i = 1, !.request = request, !.pre = Snapshot]
    /\ UNCHANGED httpFrame

\* the middleware at position i runs up to its call of call_next, or answers itself
HCallNext ==
    /\ http.pc = "request"
    /\ LET m == user_middleware[http.i]
           own == IF m = "validate_content_type" THEN validate_content_type(http.request) ELSE <<>>
       IN
       http' = IF own # <<>>
               THEN [http EXCEPT !.events = @ \o << <<"request", m>>, <<"response", m>> >>,
                                 !.response = own[1],
                                 !.pc = IF http.i = 1 THEN "done" ELSE "response",
                                 !.i = @ - 1]
               ELSE [http EXCEPT !.events = Append(@, <<"request", m>>),
                                 !.request_id = IF m = "add_request_id" THEN request_id(http.request) ELSE @,
                                 !.pc = IF http.i = Len(user_middleware) THEN "route" ELSE "request",
                                 !.i = IF http.i = Len(user_middleware) THEN @ ELSE @ + 1]
    /\ UNCHANGED httpFrame

\* FastAPI reads the body of POST /api/query as JSON when the Content-Type header is
\* absent or its subtype is json; otherwise the QueryRequest fails validation (422)
body_is_json(request) ==
    \/ request.content_type = <<>>
    \/ request.content_type \in { <<"application/", "json">>, <<"application/", "json", "; charset=utf-8">> }

\* the router: POST /api/query runs handle_query
HRouteQuery(client_id, query, user_id, new_session, response) ==
    /\ http.pc = "route"
    /\ http.request.method = "POST"
    /\ body_is_json(http.request)
    /\ handle_query(client_id, None, query, user_id, new_session, response, TRUE, TRUE, TRUE)
    /\ http' = [http EXCEPT !.events = Append(@, <<"route", "handle_query">>),
                            !.response = [status_code |-> last'.ret.status,
                                          headers |-> IF last'.ret.success THEN last'.ret.headers
                                                      ELSE EmptyDict],
                            !.handled = TRUE,
                            !.pc = "response"]

\* the router: GET /health runs health_check; a request no route function takes is
\* answered by the framework (422 for a body that is not a QueryRequest, 405 for a
\* method without a route)
HRouteOther ==
    /\ http.pc = "route"
    /\ ~(http.request.method = "POST" /\ body_is_json(http.request))
    /\ http' = [http EXCEPT !.events = Append(@, <<"route", IF http.request.method = "GET"
                                                            THEN "health_check" ELSE "none">>),
                            !.response = Response(CASE http.request.method = "GET" -> 200
                                                    [] http.request.method = "POST" -> 422
                                                    [] OTHER -> 405),
                            !.handled = (http.request.method = "GET"),
                            !.pc = "response"]
    /\ UNCHANGED httpFrame

\* call_next returned to the middleware at position i, which finishes
HReturn ==
    /\ http.pc = "response"
    /\ LET m == user_middleware[http.i] IN
       http' = [http EXCEPT !.events = Append(@, <<"response", m>>),
                            !.response = on_response(m, http.response, http.request_id),
                            !.pc = IF http.i = 1 THEN "done" ELSE "response",
                            !.i = @ - 1]
    /\ UNCHANGED httpFrame

NextHttp ==
    \/ \E request \in HttpRequests : HReceive(request)
    \/ HCallNext
    \/ \E query \in {Str("plan a trip", TRUE, TRUE, 250), Str("", TRUE, FALSE, 0)}, new_session \in BOOLEAN, response \in Responses :
          HRouteQuery("1.2.3.4", query, "web_user", new_session, response)
    \/ HRouteOther
    \/ HReturn

SpecHttp == InitHttp /\ [][NextHttp]_vars

(***************************************************************************)
(* SpecKeyed: NThreads threads each call, once and on one day, either      *)
(* anonymous_limiter.check_and_increment(client_id) or                     *)
(* increment_user_rate_limit(user_id, MaxUserLimit).  Every statement of   *)
(* the two bodies is a step of its own; `with self._lock` and              *)
(* `with _user_limits_lock` bracket them.                                  *)
(***************************************************************************)
keyedFrame == <<today, global_limiter, threadVars, last, globalHist, anonHist, sessionVars, goc_prev, runner, task, adds, incs, allowed_today, authVars, http, run>>

InitKeyed ==
    /\ today = 0
    /\ global_limiter = GlobalDailyLimiter(1)
    /\ anonymous_limiter = AnonymousLimiter(1)
    /\ AllThreadVarsIdle
    /\ last = NoOp
    /\ InitGlobalHist
    /\ InitAnonHist
    /\ InitSessions(FALSE)
    /\ InitApp(TRUE)
    /\ InitOther

keyed_lock_ignored(kind) == TRUE

\* threading.Lock.acquire on self._lock (anonymous) or _user_limits_lock (user): blocks
\* while another thread holds it
keyed_lock_acquirable(kind) == keyed.lock[kind] = Unlocked

\* the stored count of a key
KeyedCount(k) ==
    IF k[1] = "anonymous" THEN Get(anonymous_limiter.usage, k[2], 0)
    ELSE IF k[2] \in DOMAIN user_limits THEN user_limits[k[2]].count ELSE 0

\* self.free_limit, daily_limit
KeyedLimit(kind) == IF kind = "anonymous" THEN anonymous_limiter.free_limit ELSE MaxUserLimit

\* with self._lock: / with _user_limits_lock:
K_Acquire(t, kind, key) ==
    /\ keyed.th[t].pc = "idle"
    /\ keyed_lock_acquirable(kind)
    /\ keyed' = [keyed EXCEPT !.lock[kind] = t,
                              !.th[t] = [@ EXCEPT !.pc = "reset", !.kind = kind, !.key = key]]
    /\ UNCHANGED <<anonymous_limiter, user_limits, keyedFrame>>

\* self._check_reset() / the entry is created when missing and
\* _reset_user_data_if_needed(user_data, today)
K_Reset(t) ==
    /\ keyed.th[t].pc = "reset"
    /\ IF keyed.th[t].kind = "anonymous"
       THEN /\ anonymous_limiter' = Anon_check_reset(anonymous_limiter)
            /\ UNCHANGED user_limits
       ELSE /\ user_limits' = Put(user_limits, keyed.th[t].key, user_data(user_limits, keyed.th[t].key))
            /\ UNCHANGED anonymous_limiter
    /\ keyed' = [keyed EXCEPT !.th[t].pc = IF keyed.th[t].kind = "anonymous" THEN "load" ELSE "check"]
    /\ UNCHANGED keyedFrame

\* count = self._usage.get(client_id, 0) / user_data["count"] += 1, the read
K_Load(t) ==
    /\ keyed.th[t].pc = "load"
    /\ keyed' = [keyed EXCEPT !.th[t].tmp = KeyedCount(<<keyed.th[t].kind, keyed.th[t].key>>),
                              !.th[t].pc = IF keyed.th[t].kind = "anonymous" THEN "check" ELSE "store"]
    /\ UNCHANGED <<anonymous_limiter, user_limits, keyedFrame>>

\* if count >= self.free_limit: return False, count, 0
\* if user_data["count"] >= daily_limit: return False, user_data["count"], 0
K_Check(t) ==
    /\ keyed.th[t].pc = "check"
    /\ LET kind == keyed.th[t].kind
           c == IF kind = "anonymous" THEN keyed.th[t].tmp
                ELSE KeyedCount(<<kind, keyed.th[t].key>>)
       IN
       keyed' = IF c >= KeyedLimit(kind)
                THEN [keyed EXCEPT !.th[t].pc = "done", !.th[t].ret = <<FALSE, c, 0>>,
                                   !.lock[kind] = Unlocked]
                ELSE [keyed EXCEPT !.th[t].pc = IF kind = "anonymous" THEN "store" ELSE "load"]
    /\ UNCHANGED <<anonymous_limiter, user_limits, keyedFrame>>

\* count += 1; self._usage[client_id] = count / user_data["count"] += 1, the write
K_Store(t) ==
    /\ keyed.th[t].pc = "store"
    /\ IF keyed.th[t].kind = "anonymous"
       THEN /\ anonymous_limiter' = [anonymous_limiter EXCEPT !.usage = Put(@, keyed.th[t].key, keyed.th[t].tmp + 1)]
            /\ UNCHANGED user_limits
       ELSE /\ user_limits' = [user_limits EXCEPT ![keyed.th[t].key].count = keyed.th[t].tmp + 1]
            /\ UNCHANGED anonymous_limiter
    /\ keyed' = [keyed EXCEPT !.th[t].pc = "return"]
    /\ UNCHANGED keyedFrame

\* return True, count, remaining   (leaving the with block)
K_Return(t) ==
    /\ keyed.th[t].pc = "return"
    /\ LET kind == keyed.th[t].kind
           k == <<kind, keyed.th[t].key>>
           c == IF kind = "anonymous" THEN keyed.th[t].tmp + 1 ELSE KeyedCount(k)
       IN
       keyed' = [keyed EXCEPT !.th[t].pc = "done", !.th[t].ret = <<TRUE, c, KeyedLimit(kind) - c>>,
                              !.allowed[k] = @ + 1,
                              !.lock[kind] = Unlocked]
    /\ UNCHANGED <<anonymous_limiter, user_limits, keyedFrame>>

NextKeyed ==
    \E t \in Threads :
        \/ \E k \in Keys : K_Acquire(t, k[1], k[2])
        \/ K_Reset(t)
        \/ K_Load(t)
        \/ K_Check(t)
        \/ K_Store(t)
        \/ K_Return(t)

SpecKeyed == InitKeyed /\ [][NextKeyed]_vars

(***************************************************************************)
(* SpecRun: TripPlannerRunner.run_query called from several asyncio tasks  *)
(* of one event loop, with end_conversation calls in between.  A task runs *)
(* until its next await: session_service.create_session inside             *)
(* get_or_create_session / create_new_session, and _run_agent_query.       *)
(* Tracing calls do not fail.                                              *)
(***************************************************************************)
runFrame == <<today, limiterVars, threadVars, globalHist, anonHist, goc_prev, appVars, task, adds, incs, allowed_today, authVars, http, keyed, last>>

\* the queries the tasks run
RunQueries == { Str("plan a trip", TRUE, TRUE, 250), Str("New Session", TRUE, TRUE, 11) }

InitRun ==
    /\ today = 0
    /\ global_limiter = GlobalDailyLimiter(1)
    /\ anonymous_limiter = AnonymousLimiter(1)
    /\ AllThreadVarsIdle
    /\ last = NoOp
    /\ InitGlobalHist
    /\ InitAnonHist
    /\ InitSessions(TRUE)
    /\ InitApp(TRUE)
    /\ InitOther

\* runner.get_current_query_span(), which concierge.get_query_span and create_tool_span
\* read while the agent runs
get_current_query_span == run.current_query_span

\* run_query from the return of get_or_create_session / create_new_session (session) up
\* to the await of _run_agent_query (lines 81-94), for the task with record me in the
\* bundle w: the new bundle, the task's record and _current_query_span
enter_agent(w, t, me, session, current) ==
    LET query_num == get_query_count(w, me.user_id) + 1
        c == get_conversation_id(w, me.user_id)
        span == IF is_dummy_query(me.query) THEN NoSpan
                ELSE query_span(c.w, me.user_id, query_num, t)
    IN [w |-> c.w,
        th |-> [me EXCEPT !.pc = "agent", !.session = session, !.span = span],
        current |-> IF is_dummy_query(me.query) THEN current ELSE span]

\* run_query is called (lines 76-79): create_new_session ends the trace and awaits
\* create_session; get_or_create_session awaits create_session when the user has no
\* session, else returns the stored one and run_query goes on to the agent
R_Call(t, user_id, query, new_session) ==
    /\ run.th[t].pc = "idle"
    /\ LET me == [run.th[t] EXCEPT !.user_id = user_id, !.query = query, !.new_session = new_session,
                                   !.span = NoSpan, !.session = 0]
           e == enter_agent(World, t, me, Get(session_manager.current_sessions, user_id, 0), run.current_query_span)
       IN
       IF new_session
       THEN /\ SetWorld(end_conversation_trace(World, user_id, TRUE))
            /\ run' = [run EXCEPT !.th[t] = [me EXCEPT !.pc = "create"],
                                  !.last = [op |-> "create_new_session", user_id |-> user_id, t |-> t]]
       ELSE IF user_id \notin DOMAIN session_manager.current_sessions
       THEN /\ UNCHANGED sessionVars
            /\ run' = [run EXCEPT !.th[t] = [me EXCEPT !.pc = "create"],
                                  !.last = [op |-> "get_or_create_session", user_id |-> user_id, t |-> t]]
       ELSE /\ SetWorld(e.w)
            /\ run' = [run EXCEPT !.th[t] = e.th, !.current_query_span = e.current,
                                  !.last = [op |-> "get_or_create_session", user_id |-> user_id, t |-> t]]
    /\ UNCHANGED runFrame

\* create_session returned: the registry writes of lines 63-71 / 101-109, then run_query
\* goes on to the agent
R_Created(t) ==
    /\ run.th[t].pc = "create"
    /\ LET me == run.th[t]
           s == install_session(World, me.user_id, TRUE)
           e == enter_agent(s.w, t, me, s.ret, run.current_query_span)
       IN
       /\ SetWorld(e.w)
       /\ run' = [run EXCEPT !.th[t] = e.th, !.current_query_span = e.current,
                             !.last = [op |-> IF me.new_session THEN "create_new_session"
                                              ELSE "get_or_create_session",
                                       user_id |-> me.user_id, t |-> t]]
    /\ UNCHANGED runFrame

\* create_session raised, or the task was cancelled while suspended in it: the exception
\* leaves run_query
R_CreateFailed(t) ==
    /\ run.th[t].pc = "create"
    /\ run' = [run EXCEPT !.th[t] = NoRuns.th[t],
                          !.last = [op |-> "create_failed", user_id |-> run.th[t].user_id, t |-> t]]
    /\ UNCHANGED <<sessionVars, runFrame>>

\* _run_agent_query returned (lines 96-116): the span is ended, _current_query_span is
\* set to None, the exchange is added to the log unless the query is a dummy
R_AgentReturned(t, response) ==
    /\ run.th[t].pc = "agent"
    /\ LET me == run.th[t] IN
       /\ IF is_dummy_query(me.query)
          THEN UNCHANGED sessionVars
          ELSE SetWorld(add_query_to_conversation(World, me.user_id, me.query, response))
       /\ run' = [run EXCEPT !.th[t] = NoRuns.th[t], !.current_query_span = NoSpan,
                             !.last = [op |-> "returned", user_id |-> me.user_id, t |-> t]]
    /\ UNCHANGED runFrame

\* the task was cancelled while suspended in _run_agent_query (which catches Exception
\* only): `finally` sets _current_query_span to None and the error leaves run_query
R_AgentRaised(t) ==
    /\ run.th[t].pc = "agent"
    /\ run' = [run EXCEPT !.th[t] = NoRuns.th[t], !.current_query_span = NoSpan,
                          !.last = [op |-> "raised", user_id |-> run.th[t].user_id, t |-> t]]
    /\ UNCHANGED <<sessionVars, runFrame>>

\* POST /api/feedback with 'satisfied': runner.end_conversation(user_id)
R_EndConversation(user_id) ==
    /\ user_id \in DOMAIN session_manager.current_sessions
    /\ SetWorld(end_conversation(World, user_id, TRUE))
    /\ run' = [run EXCEPT !.last = [op |-> "end_conversation", user_id |-> user_id, t |-> 0]]
    /\ UNCHANGED runFrame

NextRun ==
    \/ \E t \in 1..NTasks, user_id \in Users, query \in RunQueries, new_session \in BOOLEAN :
          R_Call(t, user_id, query, new_session)
    \/ \E t \in 1..NTasks : R_Created(t)
    \/ \E t \in 1..NTasks : R_CreateFailed(t)
    \/ \E t \in 1..NTasks, response \in Responses : R_AgentReturned(t, response)
    \/ \E t \in 1..NTasks : R_AgentRaised(t)
    \/ \E user_id \in Users : R_EndConversation(user_id)

SpecRun == InitRun /\ [][NextRun]_vars

(***************************************************************************)
(* Claims about the GlobalDailyLimiter, checked under SpecGlobal.          *)
(***************************************************************************)
\* C1: on a fresh limiter with daily_limit = L and no date change (and no reset()),
\* the k-th call to increment() returns (True, k, L-k) for k in 1..L, every later
\* call returns (False, L, 0), and the count stays at L.
C1_FirstLCallsAllowed ==
    (fresh /\ last.op = "increment") =>
        LET L == global_limiter.daily_limit IN
        /\ last.ret = IF calls <= L THEN <<TRUE, calls, L - calls>> ELSE <<FALSE, L, 0>>
        /\ global_limiter.count = Min(calls, L)

\* C1 witness: the second call past the limit of a limiter with L >= 2 was denied
C1_Witness ==
    /\ fresh
    /\ last.op = "increment"
    /\ global_limiter.daily_limit >= 2
    /\ calls = global_limiter.daily_limit + 2
    /\ last.ret = <<FALSE, global_limiter.daily_limit, 0>>

\* C3: once the date has advanced, the next increment() returns (True, 1, L-1)
\* whatever the count was at the date change, an exhausted counter included.
C3_FirstIncrementOfNewDay ==
    (last.op = "increment" /\ last.first_after_tick) =>
        last.ret = <<TRUE, 1, global_limiter.daily_limit - 1>>

\* C3 witness: the counter was exhausted when the date changed, and the first
\* increment() of the new day was allowed with count 1
C3_Witness ==
    /\ last.op = "increment"
    /\ last.first_after_tick
    /\ count_at_tick = global_limiter.daily_limit
    /\ last.ret = <<TRUE, 1, global_limiter.daily_limit - 1>>

\* C4 as stated: within one calendar day, over any sequence of increment, get_status
\* and reset, each threshold's warning is printed at most once, and it is printed by
\* the first successful increment of that day whose count/limit reaches the threshold.
C4_OncePerDayOriginal ==
    /\ \A t \in warning_thresholds : fired[t] <= 1
    /\ (last.op = "increment" /\ last.ret[1]) =>
          last.warned = ThresholdsReached(global_limiter, last.ret[2]) \ last.reached_today_before

\* C4 amended: within one calendar day and since the last reset() of that day, each
\* threshold's warning is printed at most once, by the first successful increment
\* whose count/limit reaches the threshold; reset() clears the issued set, so a
\* threshold reached again after it is printed again.
C4_OncePerDaySinceReset ==
    /\ \A t \in warning_thresholds : fired_since_reset[t] <= 1
    /\ (last.op = "increment" /\ last.ret[1]) =>
          last.warned = ThresholdsReached(global_limiter, last.ret[2]) \ last.reached_before
    /\ (last.op = "increment" /\ ~last.ret[1]) => last.warned = {}
    /\ last.op \in {"get_status", "reset", "tick"} => last.warned = {}

\* C4 witness: an allowed increment printed nothing because every threshold it
\* reaches had been printed by an earlier increment since the last zeroing
C4_Witness ==
    /\ last.op = "increment"
    /\ last.ret[1]
    /\ last.warned = {}
    /\ ThresholdsReached(global_limiter, last.ret[2]) # {}
    /\ \A t \in ThresholdsReached(global_limiter, last.ret[2]) : fired_since_reset[t] = 1

(***************************************************************************)
(* Claims about concurrent increments, checked under SpecThreads.          *)
(***************************************************************************)
AllDone == \A t \in Threads : thread[t].pc = "done"

AllowedThreads == {t \in Threads : thread[t].pc = "done" /\ thread[t].ret[1]}

DeniedThreads == {t \in Threads : thread[t].pc = "done" /\ ~thread[t].ret[1]}

\* C2: when N > L threads call increment() concurrently on a fresh limiter on one day,
\* under every interleaving exactly L calls are allowed and N - L denied, the allowed
\* calls return the distinct counts 1..L, and the final count is L (never more).
C2_ExactlyLAllowed ==
    LET L == global_limiter.daily_limit IN
    /\ global_limiter.count <= L
    /\ \A t, u \in AllowedThreads : t # u => thread[t].ret[2] # thread[u].ret[2]
    /\ AllDone =>
        /\ Cardinality(AllowedThreads) = L
        /\ Cardinality(DeniedThreads) = NThreads - L
        /\ {thread[t].ret[2] : t \in AllowedThreads} = 1..L
        /\ \A t \in AllowedThreads : thread[t].ret[3] = L - thread[t].ret[2]
        /\ \A t \in DeniedThreads : thread[t].ret = <<FALSE, L, 0>>
        /\ global_limiter.count = L

\* C2 witness: all threads returned, two were allowed and the thread that took the lock
\* after them was denied
C2_Witness ==
    /\ AllDone
    /\ global_limiter.daily_limit = 2
    /\ Cardinality(AllowedThreads) = 2
    /\ DeniedThreads # {}

(***************************************************************************)
(* Claims about the AnonymousLimiter, checked under SpecAnon.              *)
(***************************************************************************)
\* C5: check_and_increment(c) changes only client c's count: for every other client d
\* the result of d's next check_and_increment is what it would have been without the
\* call for c, and on an unchanged date d's stored count is unchanged too; on a day
\* without reset() every client, whatever the others used, is allowed exactly its
\* first free_limit calls.
C5_OtherClientsUntouched ==
    /\ last.op = "check_and_increment" =>
          \A d \in Clients \ {last.arg} :
              /\ Anon_check_and_increment(anonymous_limiter, d).ret
                    = Anon_check_and_increment(last.pre, d).ret
              /\ ~last.stale =>
                    /\ (d \in DOMAIN anonymous_limiter.usage) = (d \in DOMAIN last.pre.usage)
                    /\ Get(anonymous_limiter.usage, d, 0) = Get(last.pre.usage, d, 0)
    /\ ~anon_reset_today =>
          \A d \in Clients : anon_allowed[d] = Min(anon_calls[d], anonymous_limiter.free_limit)

\* C5 witness: client c was exhausted and denied, then client d, unused that day,
\* was allowed free_limit >= 2 calls and denied the next
C5_Witness ==
    /\ ~anon_reset_today
    /\ anonymous_limiter.free_limit >= 2
    /\ last.op = "check_and_increment"
    /\ ~last.ret[1]
    /\ \E c \in Clients \ {last.arg} :
          /\ anon_calls[c] > anonymous_limiter.free_limit
          /\ anon_allowed[c] = anonymous_limiter.free_limit
    /\ anon_calls[last.arg] = anonymous_limiter.free_limit + 1
    /\ anon_allowed[last.arg] = anonymous_limiter.free_limit

(***************************************************************************)
(* Claims about POST /api/query, checked under SpecApp.  A step that       *)
(* leaves last.op = "handle_query" is a handle_query request; last'.arg is *)
(* its caller and last'.ret its outcome.                                   *)
(***************************************************************************)
\* the global daily counter has quota left
QuotaAvailable == global_limiter.count < global_limiter.daily_limit

\* C6: of the requests an anonymous client c sends to POST /api/query on one day, the
\* first free_limit pass the anonymous gate (and are admitted while global quota is
\* available, counting in the global counter), whatever other clients did; every
\* further one is answered 401, leaves the global counter as it was and does not reach
\* the runner or the session registry.  (anon_calls'[c] is the number of the request
\* among c's requests of the day, free_limit + 1 standing for every later one.)
C6_Step ==
    \A c \in Clients :
        (last'.op = "handle_query" /\ last'.arg = c) =>
            /\ anon_calls'[c] <= anonymous_limiter.free_limit =>
                  /\ last'.ret.status # 401
                  /\ QuotaAvailable =>
                        /\ last'.ret.status # 429
                        /\ global_limiter'.count = global_limiter.count + 1
            /\ anon_calls'[c] > anonymous_limiter.free_limit =>
                  /\ last'.ret.status = 401
                  /\ ~last'.ret.agent_invoked
                  /\ global_limiter' = global_limiter
                  /\ UNCHANGED sessionVars

C7_Step ==
    \A u \in AuthUsers :
        (last'.op = "handle_query" /\ last'.arg = u /\ last'.ret.status \notin {401, 429}) =>
            user_data(user_limits', u).count = user_data(user_limits, u).count + 1

C7_AdmittedQueryIsCounted == [][C7_Step]_vars

\* C8: a request to POST /api/query that a limiter denies (401 from the anonymous gate,
\* 429 from the global daily limit) leaves the session registry, the runtime's sessions
\* and the traces as they were: no session created or replaced, no trace opened or
\* closed, no exchange appended, for any user
C8_Step ==
    (last'.op = "handle_query" /\ last'.ret.status \in {401, 429}) =>
        /\ UNCHANGED sessionVars
        /\ ~last'.ret.agent_invoked

C8_DeniedNeverReachesRegistry == [][C8_Step]_vars

\* C8 witness: a request was denied with 429 while a user had a session with an open
\* trace and a recorded exchange
C8_Witness ==
    /\ last.op = "handle_query"
    /\ last.ret.status = 429
    /\ \E u \in Users :
          /\ u \in DOMAIN session_manager.current_sessions
          /\ u \in DOMAIN session_manager.opik_traces
          /\ get_query_count(World, u) >= 1

\* C9: while the global daily counter is at its limit, a request to POST /api/query is
\* answered 401 if it comes from an anonymous client whose free requests of the day are
\* used up, and 429 otherwise; in both cases the runner is not invoked, the session
\* registry is untouched and the global count stays at the limit
C9_Step ==
    (last'.op = "handle_query" /\ ~QuotaAvailable) =>
        /\ last'.ret.status =
              IF last'.arg \in Clients /\ anon_calls[last'.arg] >= anonymous_limiter.free_limit
              THEN 401 ELSE 429
        /\ ~last'.ret.agent_invoked
        /\ UNCHANGED sessionVars
        /\ global_limiter'.count = global_limiter.daily_limit

SessionsOf(service, user_id) == {i \in 1..Len(service) : service[i] = user_id}

\* C10: if user u has an active session, a get_or_create_session(u) call that returns
\* returns that same handle and leaves u's conversation id, query log and trace (and
\* the rest of the registry) unchanged; one call allocates at most one runtime session,
\* and of two get_or_create_session(u) calls in a row, with no call between them that
\* ends, replaces or clears u's session, the second returns the handle the first
\* returned and allocates nothing, so the two allocate at most one runtime session.
\* (A call that returns records its result in goc_prev'[u] and leaves the records of
\* the other users alone.)
C10_Step ==
    \A u \in Users :
        (goc_prev'[u].set /\ \A v \in Users \ {u} : goc_prev'[v] = goc_prev[v]) =>
            \A create_ok, trace_ok \in BOOLEAN :
                SGetOrCreate(u, create_ok, trace_ok) =>
                    /\ Len(session_service') <= Len(session_service) + 1
                    /\ u \in DOMAIN session_manager.current_sessions =>
                          /\ goc_prev'[u].ret = session_manager.current_sessions[u]
                          /\ UNCHANGED sessionVars
                    /\ goc_prev[u].set =>
                          /\ goc_prev'[u].ret = goc_prev[u].ret
                          /\ session_service' = session_service

C10_GetOrCreateReturnsSameSession == [][C10_Step]_vars

\* C10 witness: get_or_create_session(u) created u's session and its trace, an exchange
\* was recorded, and a second get_or_create_session(u) returned the same handle, the
\* only session the runtime holds for u
C10_Witness ==
    \E u \in Users :
        /\ goc_prev[u].set
        /\ goc_prev[u].again
        /\ u \in DOMAIN session_manager.current_sessions
        /\ goc_prev[u].ret = session_manager.current_sessions[u]
        /\ SessionsOf(session_service, u) = {goc_prev[u].ret}
        /\ get_query_count(World, u) = 1
        /\ u \in DOMAIN session_manager.opik_traces

(***************************************************************************)
(* Claims about the SessionManager's methods, checked under SpecCalls.     *)
(* last.pre is the bundle the last call started from.                      *)
(***************************************************************************)
\* C11: after a create_new_session(u) call that returned, the registry holds for u the
\* handle returned, which is no handle the runtime issued before (so not the one u had
\* before), a conversation id drawn by this call (so not the one u had before), and
\* an empty query log, whether or not u had an active session before
C11_CreateNewIsFresh ==
    (last.op = "create_new_session" /\ ~last.ret.raised) =>
        LET u == last.arg.user_id IN
        /\ u \in DOMAIN session_manager.current_sessions
        /\ session_manager.current_sessions[u] = last.ret.ret
        /\ last.ret.ret \notin 1..Len(last.pre.service)
        /\ u \in DOMAIN last.pre.sm.current_sessions =>
              last.ret.ret # last.pre.sm.current_sessions[u]
        /\ u \in DOMAIN session_manager.conversation_ids
        /\ session_manager.conversation_ids[u] \notin 1..last.pre.uuids
        /\ u \in DOMAIN last.pre.sm.conversation_ids =>
              session_manager.conversation_ids[u] # last.pre.sm.conversation_ids[u]
        /\ get_query_count(World, u) = 0

\* C11 witness: create_new_session(u) returned for a user who had an active session
\* with a recorded exchange
C11_Witness ==
    /\ last.op = "create_new_session"
    /\ ~last.ret.raised
    /\ last.arg.user_id \in DOMAIN last.pre.sm.current_sessions
    /\ get_query_count(last.pre, last.arg.user_id) >= 1

\* C12: for a user u with an active session, get_query_count(u) is the number of
\* add_query_to_conversation(u, ...) calls made since u's session was last created, and
\* such a call leaves u's log as it was with the pair of the call (the query cut to 200
\* and the response to 500 characters) added at the end
C12_LogInCallOrder ==
    /\ \A u \in CallUsers :
          u \in DOMAIN session_manager.current_sessions => get_query_count(World, u) = adds[u]
    /\ (last.op = "add_query_to_conversation"
          /\ last.arg.user_id \in DOMAIN last.pre.sm.current_sessions) =>
            session_manager.conversation_queries[last.arg.user_id] =
                Append(last.pre.sm.conversation_queries[last.arg.user_id],
                       StoredEntry(last.arg.query, last.arg.response))

\* C12 witness: a second exchange, with another query than the first, was recorded for
\* a user with an active session
C12_Witness ==
    /\ last.op = "add_query_to_conversation"
    /\ last.arg.user_id \in DOMAIN last.pre.sm.current_sessions
    /\ get_query_count(last.pre, last.arg.user_id) = 1
    /\ last.pre.sm.conversation_queries[last.arg.user_id][1].query.body # last.arg.query.body
    /\ get_query_count(World, last.arg.user_id) = 2
    /\ adds[last.arg.user_id] = 2

\* the registry holds something for user_id: a handle, a conversation id, a log or a trace
Holds(sm, user_id) ==
    \/ user_id \in DOMAIN sm.current_sessions
    \/ user_id \in DOMAIN sm.conversation_ids
    \/ user_id \in DOMAIN sm.conversation_queries
    \/ user_id \in DOMAIN sm.opik_traces

\* after end_conversation(u) the registry holds nothing for u and get_query_count(u) = 0;
\* a get_or_create_session(u) that starts without a handle for u and returns has
\* allocated a session the runtime did not hold before and leaves u an empty log
EndConversationPurges ==
    /\ last.op = "end_conversation" =>
          /\ ~last.ret.raised
          /\ ~Holds(session_manager, last.arg.user_id)
          /\ get_query_count(World, last.arg.user_id) = 0
    /\ (last.op = "get_or_create_session" /\ ~last.ret.raised
          /\ last.arg.user_id \notin DOMAIN last.pre.sm.current_sessions) =>
          /\ Len(session_service) = Len(last.pre.service) + 1
          /\ last.ret.ret = Len(session_service)
          /\ session_manager.current_sessions[last.arg.user_id] = last.ret.ret
          /\ get_query_count(World, last.arg.user_id) = 0

C14_AddWithoutSessionIsNoOp ==
    (last.op = "add_query_to_conversation"
        /\ last.arg.user_id \notin DOMAIN last.pre.sm.current_sessions
        /\ get_query_count(last.pre, last.arg.user_id) = 0) =>
            /\ session_manager = last.pre.sm
            /\ get_query_count(World, last.arg.user_id) = 0

\* sessions the runtime created for user_id
CreatedFor(user_id) == {i \in 1..Len(session_service) : session_service[i] = user_id}

\* C15: with get_or_create_session(u) calls overlapping, the runtime creates at most one
\* session per user, and every caller that got a session got the one the registry holds
C15_OneSessionPerUser ==
    /\ \A u \in Users : Cardinality(CreatedFor(u)) <= 1
    /\ \A t \in 1..NTasks :
          task[t].pc = "done" =>
              /\ task[t].user_id \in DOMAIN session_manager.current_sessions
              /\ task[t].session = session_manager.current_sessions[task[t].user_id]

\* the last call ended as r does: same exception or result, same session handles,
\* conversation ids and query logs
SameOutcome(r) ==
    /\ last.ret.raised = r.raised
    /\ last.ret.ret = r.ret
    /\ session_manager.current_sessions = r.w.sm.current_sessions
    /\ session_manager.conversation_ids = r.w.sm.conversation_ids
    /\ session_manager.conversation_queries = r.w.sm.conversation_queries
    /\ session_service = r.w.service

\* C16: get_or_create_session, create_new_session and end_conversation end as they do when
\* every tracing call succeeds, whatever the tracing calls did: they raise only when
\* create_session raised, return the same session and leave the same handles, conversation
\* ids and query logs
C16_TracingNeverMatters ==
    /\ last.op = "get_or_create_session" =>
          /\ SameOutcome(get_or_create_session(last.pre, last.arg.user_id, last.arg.create_ok, TRUE))
          /\ last.ret.raised => ~last.arg.create_ok
    /\ last.op = "create_new_session" =>
          /\ SameOutcome(create_new_session(last.pre, last.arg.user_id, last.arg.create_ok, TRUE, TRUE))
          /\ last.ret.raised => ~last.arg.create_ok
    /\ last.op = "end_conversation" =>
          /\ SameOutcome(Returned(end_conversation(last.pre, last.arg.user_id, TRUE), None))
          /\ ~last.ret.raised

\* C16 witness: a tracing call raised inside the last call: a session was created with a
\* tracing client but no trace was stored, or a stored trace was dropped without being ended
C16_Witness ==
    \/ /\ last.op \in {"get_or_create_session", "create_new_session"}
       /\ ~last.ret.raised
       /\ Len(session_service) > Len(last.pre.service)
       /\ session_manager.opik_client
       /\ last.arg.user_id \notin DOMAIN session_manager.opik_traces
    \/ /\ last.op = "end_conversation"
       /\ last.arg.user_id \in DOMAIN last.pre.sm.opik_traces
       /\ opik = last.pre.opik

\* the last call was a get_or_create_session(u) for a user without a session handle whose
\* create_session raised or was cancelled
CreateFailed ==
    /\ last.op = "get_or_create_session"
    /\ last.arg.user_id \notin DOMAIN last.pre.sm.current_sessions
    /\ last.arg.create # "returned"

ReadGlobalStatus ==
    \/ last.op = "get_status"
    \/ last.op = "rate_limit_status" /\ last.arg = None

\* C18: get_status() and GET /api/rate-limit-status on a limiter whose reset date is the
\* current day leave the limiter as it was, count and issued warnings included; the status
\* read has count = the limiter's count and remaining = limit - count, and on a day without
\* reset() the count is the number of increments allowed that day
C18_StatusReadsOnly ==
    /\ (last.op \in {"get_status", "rate_limit_status"} /\ ~last.stale) =>
            global_limiter = last.pre
    /\ ReadGlobalStatus =>
          /\ last.ret.count = global_limiter.count
          /\ last.ret.limit = global_limiter.daily_limit
          /\ last.ret.remaining = global_limiter.daily_limit - global_limiter.count
          /\ last.ret.remaining >= 0
          /\ resets_today = 0 => last.ret.count = allowed_today

\* C18 witness: get_status() ran on the day of two allowed increments, with a warning
\* issued, and reported count 2
C18_Witness ==
    /\ last.op = "get_status"
    /\ ~last.stale
    /\ resets_today = 0
    /\ allowed_today = 2
    /\ last.ret.count = 2
    /\ last.pre.warnings_issued # {}

\* C19: get_remaining(c) on a limiter whose reset date is the current day leaves the limiter
\* as it was; it never creates an entry for c; it returns free_limit for a client without
\* a call that day and otherwise free_limit minus the client's stored count, never below 0
C19_GetRemainingReadsOnly ==
    last.op = "get_remaining" =>
        LET c == last.arg
            usage == anonymous_limiter.usage
            free_limit == anonymous_limiter.free_limit
        IN
        /\ ~last.stale => anonymous_limiter = last.pre
        /\ c \notin DOMAIN last.pre.usage => c \notin DOMAIN usage
        /\ anon_calls[c] = 0 => last.ret = free_limit
        /\ last.ret = IF c \in DOMAIN usage THEN free_limit - usage[c] ELSE free_limit
        /\ last.ret \in 0..free_limit
        /\ ~anon_reset_today => last.ret = free_limit - anon_allowed[c]

\* C19 witness: get_remaining(c) returned 1 for a client with one of its two free requests
\* used, while another client has no entry
C19_Witness ==
    /\ last.op = "get_remaining"
    /\ ~last.stale
    /\ last.arg \in DOMAIN anonymous_limiter.usage
    /\ anonymous_limiter.free_limit = 2
    /\ last.ret = 1
    /\ \E d \in Clients : d \notin DOMAIN anonymous_limiter.usage

\* C20: the k-th increment_user_rate_limit(u) of a day returns (True, k, L - k) for k <= L
\* and (False, L, 0) after, however many get_user_rate_limit(u) calls came in between;
\* get_user_rate_limit(u) reports the count and leaves u's count for the day as it was
C20_StatusNeverCounts ==
    /\ last.op = "increment_user_rate_limit" =>
          LET k == incs[last.arg.user_id]
              L == last.arg.daily_limit
          IN last.ret = IF k <= L THEN <<TRUE, k, L - k>> ELSE <<FALSE, L, 0>>
    /\ last.op = "get_user_rate_limit" =>
          LET u == last.arg.user_id
              L == last.arg.daily_limit
          IN
          /\ user_data(user_limits, u) = user_data(last.pre, u)
          /\ DOMAIN user_limits = DOMAIN last.pre \cup {u}
          /\ \A v \in DOMAIN last.pre \ {u} : user_limits[v] = last.pre[v]
          /\ last.ret.count = Min(incs[u], L)
          /\ last.ret.remaining = L - last.ret.count
          /\ increment_user_rate_limit(user_limits, u, L) = increment_user_rate_limit(last.pre, u, L)

\* C20 witness: the second increment of the day for u came right after a status call for u
\* and returned (True, 2, L - 2)
C20_Witness ==
    /\ last.op = "increment_user_rate_limit"
    /\ last.arg.after_status
    /\ incs[last.arg.user_id] = 2
    /\ last.ret = <<TRUE, 2, last.arg.daily_limit - 2>>

(***************************************************************************)
(* Further claims about the web application, checked under SpecApp.        *)
(***************************************************************************)
\* C21: a query of a signed-in user leaves the anonymous limiter as it was and is never
\* answered 401; when the agent has answered it, the response is a success and carries
\* X-Authenticated: true and X-Anonymous-Remaining: unlimited
C21_Step ==
    (last'.op = "handle_query" /\ last'.arg \in AuthUsers) =>
        /\ anonymous_limiter' = anonymous_limiter
        /\ last'.ret.status # 401
        /\ last'.ret.agent_invoked =>
              /\ last'.ret.success
              /\ last'.ret.headers = build_rate_limit_headers(TRUE, 0)

C21_AuthenticatedQuery == [][C21_Step]_vars

(***************************************************************************)
(* Claims about the client identifier, checked under SpecClient.           *)
(***************************************************************************)
\* C22: the identifier is the first comma-separated piece of X-Forwarded-For, trimmed, when
\* that header is a non-empty string; otherwise the X-Real-IP header as it stands when it is
\* a non-empty string; otherwise the peer address.  The request is charged to the entry of
\* this identifier and to no other.
C22_ClientIdentifier ==
    last.op = "charge" =>
        LET request == last.arg
            id == last.ret.client_id
            n == Get(last.pre.usage, id, 0)
        IN
        /\ id = IF request.forwarded # <<>> /\ header_text(request.forwarded) # ""
                THEN request.forwarded[1].body
                ELSE IF request.real_ip # <<>> /\ header_text(request.real_ip) # ""
                THEN header_text(request.real_ip)
                ELSE request.peer
        /\ last.ret.allowed = (n < anonymous_limiter.free_limit)
        /\ last.ret.allowed => anonymous_limiter.usage = Put(last.pre.usage, id, n + 1)
        /\ ~last.ret.allowed => anonymous_limiter.usage = last.pre.usage

\* C22 witness: a request with X-Forwarded-For " 1.2.3.4 , 5.6.7.8 " and an X-Real-IP was
\* charged to 1.2.3.4, which now has one use, while 5.6.7.8 has an entry of its own
C22_Witness ==
    /\ last.op = "charge"
    /\ last.arg.forwarded = <<Piece("1.2.3.4", TRUE), Piece("5.6.7.8", TRUE)>>
    /\ is_set(last.arg.real_ip)
    /\ last.ret.client_id = "1.2.3.4"
    /\ last.ret.allowed
    /\ anonymous_limiter.usage["1.2.3.4"] = 1
    /\ "5.6.7.8" \in DOMAIN anonymous_limiter.usage

(***************************************************************************)
(* Claims about accounts and web sessions, checked under SpecAuth.         *)
(***************************************************************************)
\* C23: no two rows of the users table have the same email compared without case (every
\* stored email is in lower case); a POST /api/register whose email, compared without
\* case, is in the table when the response is made, whether the row was there before the
\* request or was inserted while the request ran, answers success = false with an
\* error and no user, and leaves the table as it was
C23_OneAccountPerEmail ==
    /\ \A i, j \in 1..Len(users) : i # j => users[i].email # users[j].email
    /\ \A i \in 1..Len(users) : ~users[i].email.upper /\ users[i].id = i
    /\ (last.op = "api_register" /\ get_user_by_email(last.pre, last.arg.email) # 0) =>
          /\ ~last.ret.success
          /\ last.ret.error # None
          /\ last.ret.user = <<>>
          /\ users = last.pre

\* C23 witness: a registration with ANN@X.IO passed the email lookup, another client
\* registered ann@x.io meanwhile, and the INSERT of the first was refused
C23_Witness ==
    /\ last.op = "api_register"
    /\ last.arg.email.upper
    /\ last.ret.error = "Registration failed"
    /\ get_user_by_email(users, last.arg.email) # 0
    /\ Len(users) = 1

\* C24: the session of a web client holds a user exactly when the client's last successful
\* register or login was not followed by a logout, and it holds the user of that register
\* or login: a refused register or login leaves it as it was.  GET /api/user reports it:
\* authenticated = false and no user after a logout.
C24_SessionFollowsAuth ==
    /\ \A c \in WebClients : get_current_user(web_session[c]) = signed_in[c]
    /\ last.op = "get_user" =>
          /\ last.ret.authenticated = (signed_in[last.arg.client] # <<>>)
          /\ last.ret.user = signed_in[last.arg.client]
    /\ last.op = "api_logout" => get_current_user(web_session[last.arg.client]) = <<>>
    /\ (last.op \in {"api_register", "api_login"} /\ last.ret.success) =>
          get_current_user(web_session[last.arg.client]) = last.ret.user

\* C24 witness: a login with a wrong password was refused while the client was signed in,
\* and the client is still signed in
C24_Witness ==
    /\ last.op = "api_login"
    /\ ~last.ret.success
    /\ signed_in[last.arg.client] # <<>>
    /\ get_current_user(web_session[last.arg.client]) = signed_in[last.arg.client]
    /\ get_user_by_email(users, last.arg.email) # 0


(***************************************************************************)
(* Claims about the middleware stack, checked under SpecHttp.              *)
(***************************************************************************)
IsEntry(e) == e[1] = "request" /\ e[2] \in CustomMiddleware

IsExit(e) == e[1] = "response" /\ e[2] \in CustomMiddleware

\* the second components of a sequence of events
MiddlewareOf(events) == [k \in 1..Len(events) |-> events[k][2]]

\* the custom middleware the request has entered so far, in order
Entered == MiddlewareOf(SelectSeq(http.events, IsEntry))

\* the custom middleware the response has left so far, in order
Left == MiddlewareOf(SelectSeq(http.events, IsExit))

Reverse(s) == [k \in 1..Len(s) |-> s[Len(s) + 1 - k]]

\* the route was reached and the response has been sent
Served == http.pc = "done" /\ \E k \in 1..Len(http.events) : http.events[k][1] = "route"

\* C25: each request passes through the custom middleware in the documented order
\* Request ID, Content-Type, Security Headers, Logging, then the route, and its response
\* passes back through them in the reverse order.  (Violated: the last function
\* registered is the outermost, so the order is the reverse of the documented one.)
C25_DocumentedOrder ==
    /\ startswith(DocumentedOrder, Entered)
    /\ Served => Entered = DocumentedOrder /\ Left = Reverse(DocumentedOrder)

\* what the code does: the order of the registrations, reversed
C25_ActualOrder ==
    /\ startswith(Reverse(DocumentedOrder), Entered)
    /\ Served => Entered = Reverse(DocumentedOrder) /\ Left = DocumentedOrder

C25_Witness == Served /\ http.request.method = "GET"


\* the response that was sent carries the X-Request-ID header the claim describes
HasRequestId ==
    /\ "X-Request-ID" \in DOMAIN http.response.headers
    /\ http.response.headers["X-Request-ID"] = IF http.request.x_request_id # "" THEN http.request.x_request_id ELSE uuid4

\* C26: every HTTP response, the 415 of the content-type middleware included, carries
\* an X-Request-ID header: the client's when the request had a non-empty one, a newly
\* generated id otherwise.  (Violated: the 415 is returned outside add_request_id.)
C26_EveryResponseHasRequestId == http.pc = "done" => HasRequestId

\* what the code does: the header is there exactly when the request got past
\* validate_content_type
C26_UnlessRejected == http.pc = "done" => (HasRequestId <=> http.response.status_code # 415)

C26_Witness == http.pc = "done" /\ http.response.status_code = 415 /\ http.request.x_request_id # ""


\* a POST, PUT or PATCH request whose Content-Type header is non-empty and starts with
\* none of the three allowed types
Unsupported(request) ==
    /\ request.method \in {"POST", "PUT", "PATCH"}
    /\ request.content_type # <<>>
    /\ ~startswith(request.content_type, <<"application/", "json">>)
    /\ ~startswith(request.content_type, <<"multipart/", "form-data">>)
    /\ ~startswith(request.content_type, <<"application/", "x-www-form-urlencoded">>)

\* the request got as far as the router
ReachedRoute == \E k \in 1..Len(http.events) : http.events[k][1] = "route"

\* C27: a POST, PUT or PATCH request with an unsupported non-empty Content-Type is
\* answered with 415 without the route handler running, so no rate-limit counter and no
\* session state changes; a request with another method or without a Content-Type
\* header is passed on to the next handler.
C27_UnsupportedMediaType ==
    /\ (http.pc # "idle" /\ Unsupported(http.request)) =>
          /\ ~http.handled
          /\ ~ReachedRoute
          /\ Snapshot = http.pre
          /\ http.pc = "done" => http.response.status_code = 415
    /\ (http.pc = "done" /\ ~Unsupported(http.request)) =>
          /\ ReachedRoute
          /\ http.response.status_code # 415

\* a PUT with Content-Type: text/plain was answered 415 after queries had been counted
C27_Witness ==
    /\ http.pc = "done"
    /\ http.request.method = "PUT"
    /\ http.request.content_type = <<"text/", "plain">>
    /\ http.response.status_code = 415
    /\ global_limiter.count > 0


(***************************************************************************)
(* Claims about the keyed limiters under concurrency, checked under        *)
(* SpecKeyed.                                                              *)
(***************************************************************************)
\* the threads that have written the new count of key k and not returned yet
Returning(k) == {t \in Threads : keyed.th[t].pc = "return" /\ <<keyed.th[t].kind, keyed.th[t].key>> = k}

\* the calls for key k that returned allowed = True
AllowedCalls(k) == {t \in Threads : /\ keyed.th[t].pc = "done"
                                    /\ <<keyed.th[t].kind, keyed.th[t].key>> = k
                                    /\ keyed.th[t].ret[1]}

\* C28: for the anonymous limiter and the per-user limiter, under any interleaving of
\* concurrent check-and-increment calls for any mix of keys on one day, each key's count
\* equals the number of calls for that key that returned allowed = True (plus those
\* that have stored and are about to return it), never exceeds the limit, and no
\* allowed call is lost or counted twice: the allowed calls of a key returned the
\* counts 1, 2, ... each once.
C28_KeyedCountsExact ==
    \A k \in Keys :
        /\ KeyedCount(k) = keyed.allowed[k] + Cardinality(Returning(k))
        /\ keyed.allowed[k] = Cardinality(AllowedCalls(k))
        /\ KeyedCount(k) <= KeyedLimit(k[1])
        /\ {keyed.th[t].ret[2] : t \in AllowedCalls(k)} = 1..keyed.allowed[k]

\* all calls returned: two raced for one client's single free use, one got it; a third
\* was counted for a user
C28_Witness ==
    /\ \A t \in Threads : keyed.th[t].pc = "done"
    /\ \E t, u, v \in Threads :
          /\ keyed.th[t].kind = "anonymous" /\ keyed.th[u].kind = "anonymous"
          /\ keyed.th[t].key = keyed.th[u].key
          /\ keyed.th[t].ret[1] /\ ~keyed.th[u].ret[1]
          /\ keyed.th[v].kind = "user" /\ keyed.th[v].ret[1]


(***************************************************************************)
(* Claims about the stored reset date, checked under SpecClock.            *)
(***************************************************************************)
\* C29 as stated: after any operation on a GlobalDailyLimiter (increment, get_status or
\* reset), performed at any wall-clock date, the stored reset date equals the current
\* date.  (Violated: reset() does not look at the date.)
C29_ResetDateOriginal ==
    last.op \in {"increment", "get_status", "reset"} => global_limiter.reset_date = today

\* C29, amended: after increment or get_status, performed at a date that is not earlier
\* than the stored reset date, the stored reset date equals the current date; performed
\* at an earlier date, they leave the stored reset date as it is.
C29_ResetDateAfterAccess ==
    last.op \in {"increment", "get_status"} =>
        global_limiter.reset_date = IF last.pre.reset_date <= today THEN today ELSE last.pre.reset_date

\* get_status() on a later day than the stored reset date brought the date up
C29_Witness ==
    /\ last.op = "get_status"
    /\ last.pre.reset_date < today
    /\ global_limiter.reset_date = today


(***************************************************************************)
(* Claims about the order of the two checks of handle_query, checked under *)
(* SpecApp.                                                                *)
(***************************************************************************)
\* C30: within one request the caller's own counter is incremented before the global
\* counter is checked and is never refunded: a query of an anonymous client with free
\* uses left raises the client's count by one whatever the answer is, and while the
\* global daily limit is exhausted the answer is a 429 that does not reach the agent;
\* a client without free uses left is answered 401 before the global counter is
\* touched.
C30_Step ==
    (last'.op = "handle_query" /\ last'.arg \in Clients) =>
        LET c == last'.arg
            before == Get(anonymous_limiter.usage, c, 0)
        IN
        IF before < anonymous_limiter.free_limit
        THEN /\ Get(anonymous_limiter'.usage, c, 0) = before + 1
             /\ ~QuotaAvailable =>
                   /\ last'.ret.status = 429
                   /\ ~last'.ret.success
                   /\ ~last'.ret.agent_invoked
                   /\ global_limiter'.count = global_limiter.count
        ELSE /\ last'.ret.status = 401
             /\ anonymous_limiter'.usage = anonymous_limiter.usage
             /\ global_limiter' = global_limiter

C31_NewDayClearsAll ==
    /\ (last.op \in {"check_and_increment", "get_remaining"} /\ last.stale) =>
          /\ anonymous_limiter.reset_date = today
          /\ DOMAIN anonymous_limiter.usage = IF last.op = "check_and_increment" THEN {last.arg} ELSE {}
          /\ last.op = "check_and_increment" =>
                last.ret = <<TRUE, 1, anonymous_limiter.free_limit - 1>>
          /\ last.op = "get_remaining" => last.ret = anonymous_limiter.free_limit
    /\ (last.op \in {"check_and_increment", "get_remaining"} /\ ~anon_reset_today) =>
          \A c \in Clients :
              /\ Get(anonymous_limiter.usage, c, 0) = anon_allowed[c]
              /\ anon_allowed[c] = Min(anon_calls[c], anonymous_limiter.free_limit)

\* both clients were exhausted the day before; the first call of the new day was allowed
\* and left the caller's entry alone in the map
C31_Witness ==
    /\ last.op = "check_and_increment"
    /\ last.stale
    /\ \A c \in Clients : Get(last.pre.usage, c, 0) = last.pre.free_limit
    /\ last.ret[1]
    /\ DOMAIN anonymous_limiter.usage = {last.arg}


(***************************************************************************)
(* Claims about concurrent requests, checked under SpecRun.                *)
(***************************************************************************)
\* the query log of user u
LogOf(sm, u) == Get(sm.conversation_queries, u, <<>>)

\* C32: between the creation of u's session and the next end_conversation(u) or
\* create_new_session(u), u's query log only grows: in every step that is no part of
\* end_conversation(u) or create_new_session(u), a user who has a session keeps a log of
\* which the old log is a prefix.  (Violated: a get_or_create_session(u) that was
\* suspended in create_session replaces the log by an empty one.)
C32_Step ==
    \A u \in Users :
        (/\ u \in DOMAIN session_manager.current_sessions
         /\ ~(run'.last.op \in {"end_conversation", "create_new_session"} /\ run'.last.user_id = u))
        => startswith(LogOf(session_manager', u), LogOf(session_manager, u))

C32_LogOnlyGrows == [][C32_Step]_vars


(***************************************************************************)
(* Claims about a failed create_new_session, checked under SpecCalls.      *)
(***************************************************************************)
\* the last call was a create_new_session(u) whose create_session raised or was cancelled
NewSessionFailed == last.op = "create_new_session" /\ ~last.arg.create_ok

\* C33: create_new_session(u) is all-or-nothing with respect to the registry: when the
\* runtime's create_session raises or is cancelled, u is left either entirely in its
\* previous state (old session, log, conversation id and open trace) or with no session
\* at all, never with the old session still active while its trace has been closed and
\* removed.  (Violated: the trace is ended and removed before the await, the rest of
\* the registry is written after it.)
C33_AllOrNothing ==
    NewSessionFailed =>
        /\ last.ret.raised
        /\ \/ session_manager = last.pre.sm /\ opik = last.pre.opik
           \/ ~Holds(session_manager, last.arg.user_id)
        /\ ~(/\ last.arg.user_id \in DOMAIN session_manager.current_sessions
             /\ last.arg.user_id \in DOMAIN last.pre.sm.opik_traces
             /\ last.arg.user_id \notin DOMAIN session_manager.opik_traces)

\* what the code does: the failed call has raised with the session handles, the
\* conversation ids and the query logs as before, and the user's trace removed
C33_TraceGoneRestKept ==
    NewSessionFailed =>
        /\ last.ret.raised
        /\ session_service = last.pre.service
        /\ session_manager.current_sessions = last.pre.sm.current_sessions
        /\ session_manager.conversation_ids = last.pre.sm.conversation_ids
        /\ session_manager.conversation_queries = last.pre.sm.conversation_queries
        /\ session_manager.opik_traces = Del(last.pre.sm.opik_traces, last.arg.user_id)

C33_Witness ==
    /\ NewSessionFailed
    /\ last.arg.user_id \in DOMAIN session_manager.current_sessions
    /\ last.arg.user_id \in DOMAIN last.pre.sm.opik_traces
    /\ opik.ends[last.pre.sm.opik_traces[last.arg.user_id]] = 1


(***************************************************************************)
(* Claims about POST /api/feedback, checked under SpecApp.                 *)
(***************************************************************************)
\* C34: POST /api/feedback ends the named user's conversation if and only if the
\* feedback value is 'satisfied' and the runner is initialized: then the registry holds
\* nothing for the user afterwards and the user's trace, if there was one, has been
\* ended; for any other feedback value (or without a runner) the user's session handle,
\* conversation id, query log and trace are left unchanged.
C34_Step ==
    last'.op = "handle_feedback" =>
        LET u == last'.arg IN
        IF last'.ret.feedback = "satisfied" /\ runner
        THEN /\ ~Holds(session_manager', u)
             /\ u \in DOMAIN session_manager.opik_traces =>
                   opik'.ends[session_manager.opik_traces[u]] = opik.ends[session_manager.opik_traces[u]] + 1
             /\ session_service' = session_service
        ELSE UNCHANGED sessionVars

RecordedSoFar ==
    IF Len(session_service) > Len(last.pre.service) THEN 0
    ELSE get_query_count(last.pre, last.arg.user_id)

\* C35: a run_query whose text, trimmed and in lower case, is 'new session' or
\* 'new_session' appends nothing to the log and opens no span; another query is appended
\* and its span, if the user has a trace, carries the number of exchanges recorded so far
\* plus one; get_query_count is the number of non-dummy exchanges of the session
C35_DummyQueryNotCounted ==
    (last.op = "run_query" /\ ~last.ret.raised) =>
        /\ get_query_count(World, last.arg.user_id) = adds[last.arg.user_id]
        /\ IF DummyText(last.arg.query)
           THEN /\ get_query_count(World, last.arg.user_id) = RecordedSoFar
                /\ last.ret.span = NoSpan
           ELSE /\ get_query_count(World, last.arg.user_id) = RecordedSoFar + 1
                /\ last.arg.user_id \in DOMAIN session_manager.opik_traces =>
                      /\ last.ret.span # NoSpan
                      /\ last.ret.span[2] = RecordedSoFar + 1

\* C35 witness: '  New Session ' was run for a user with one recorded exchange and a trace,
\* in the session the user already had
C35_Witness ==
    /\ last.op = "run_query"
    /\ ~last.ret.raised
    /\ DummyText(last.arg.query)
    /\ last.arg.query.padded
    /\ last.arg.query.upper
    /\ ~last.arg.new_session
    /\ last.arg.user_id \in DOMAIN session_manager.opik_traces
    /\ get_query_count(last.pre, last.arg.user_id) = 1
    /\ get_query_count(World, last.arg.user_id) = 1
    /\ last.ret.span = NoSpan

\* C35 second witness state: the second query of a conversation got span number 2
C35_SecondSpan ==
    /\ last.op = "run_query"
    /\ ~DummyText(last.arg.query)
    /\ last.ret.span # NoSpan
    /\ last.ret.span[2] = 2

\* C36: in every state of a GlobalDailyLimiter reached by increment, get_status, reset
\* and date changes, the warnings issued are exactly the thresholds t of 50, 80, 90, 95
\* with 100 * count >= t * daily_limit
C36_WarningsMatchCount ==
    global_limiter.warnings_issued =
        {t \in {50, 80, 90, 95} : 100 * global_limiter.count >= t * global_limiter.daily_limit}

\* C36 witness: on a later day an increment brought the count from under 90% to 90% of a
\* limit of 10 or 20: three of the four warnings are issued
C36_Witness ==
    /\ last.op = "increment"
    /\ today > 0
    /\ last.pre.warnings_issued = {50, 80}
    /\ global_limiter.count < global_limiter.daily_limit
    /\ global_limiter.warnings_issued = {50, 80, 90}

\* C37: in every state reached by the public operations of the SessionManager
\* the maps of handles, conversation ids and logs have the same users, and every user
\* with a trace has a handle
C37_SameUsers ==
    /\ DOMAIN session_manager.current_sessions = DOMAIN session_manager.conversation_ids
    /\ DOMAIN session_manager.current_sessions = DOMAIN session_manager.conversation_queries
    /\ DOMAIN session_manager.opik_traces \subseteq DOMAIN session_manager.current_sessions

\* what the code keeps instead: every user with a handle or a trace has a conversation id
\* and a log
C37_HandleHasIdAndLog ==
    /\ DOMAIN session_manager.current_sessions \subseteq DOMAIN session_manager.conversation_ids
    /\ DOMAIN session_manager.current_sessions \subseteq DOMAIN session_manager.conversation_queries
    /\ DOMAIN session_manager.opik_traces \subseteq DOMAIN session_manager.conversation_ids
    /\ DOMAIN session_manager.opik_traces \subseteq DOMAIN session_manager.conversation_queries

\* clear_session removed the handle of a user whose conversation id, log and trace stay
\* stored
C37_ClearedKeepsRest ==
    /\ last.op = "clear_session"
    /\ last.arg.user_id \in DOMAIN last.pre.sm.current_sessions
    /\ last.arg.user_id \notin DOMAIN session_manager.current_sessions
    /\ last.arg.user_id \in DOMAIN session_manager.conversation_ids
    /\ last.arg.user_id \in DOMAIN session_manager.conversation_queries
    /\ last.arg.user_id \in DOMAIN session_manager.opik_traces

\* the traces the registry holds
StoredTraces == {session_manager.opik_traces[u] : u \in DOMAIN session_manager.opik_traces}

\* C38: with tracing calls that do not fail, no trace is ended twice, and a trace that was
\* opened and is no longer in the registry (removed or replaced) was ended, under any
\* interleaving of get_or_create_session, create_new_session and end_conversation
C38_TracesEndedOnce ==
    \A trace \in DOMAIN opik.ends :
        /\ opik.ends[trace] <= 1
        /\ trace \notin StoredTraces => opik.ends[trace] = 1

\* a trace went out of the registry without having been ended
C38_TraceLost ==
    \E trace \in DOMAIN opik.ends : trace \notin StoredTraces /\ opik.ends[trace] = 0

\* no trace is ended twice
C38_NeverEndedTwice == \A trace \in DOMAIN opik.ends : opik.ends[trace] <= 1

\* C39: while the agent executes the query of a task, get_current_query_span() returns the
\* span opened for that query (None when it has no span), also with several run_query
\* calls in flight; with no run_query in flight it returns None
C39_CurrentSpanIsOwn ==
    /\ \A t \in 1..NTasks : run.th[t].pc = "agent" => get_current_query_span = run.th[t].span
    /\ (\A t \in 1..NTasks : run.th[t].pc = "idle") => get_current_query_span = NoSpan

\* with no run_query in flight get_current_query_span() returns None
C39_NoneWhenIdle ==
    (\A t \in 1..NTasks : run.th[t].pc = "idle") => get_current_query_span = NoSpan

\* one run_query returned while the agent of another is still executing its query, which
\* has a span: get_current_query_span() returns None to that agent
C39_SpanClearedUnderAgent ==
    /\ run.last.op = "returned"
    /\ \E t \in 1..NTasks : run.th[t].pc = "agent" /\ run.th[t].span # NoSpan
    /\ get_current_query_span = NoSpan

\* the request of the step passed the limiter checks: it was answered neither 401 (free
\* uses spent) nor 429 (daily limit reached)
PassedLimiters == last'.op = "handle_query" /\ last'.ret.status \notin {401, 429}

\* C40: within a day every query request that passed the limiter checks adds one to the
\* global count, also when it is then answered 503 or 400 or the agent fails, and nothing
\* else changes the count, so that the count is the number of such requests; no step
\* lowers the global count, a client's anonymous count or a user's count
C40_Step ==
    /\ global_limiter'.count = global_limiter.count + (IF PassedLimiters THEN 1 ELSE 0)
    /\ \A c \in DOMAIN anonymous_limiter.usage :
          /\ c \in DOMAIN anonymous_limiter'.usage
          /\ anonymous_limiter'.usage[c] >= anonymous_limiter.usage[c]
    /\ \A u \in DOMAIN user_limits :
          /\ u \in DOMAIN user_limits'
          /\ user_limits'[u].count >= user_limits[u].count

C40_CountIsPassedRequests == [][C40_Step]_vars

\* C40 witness: a request that passed the limiter checks was answered 400, after an
\* earlier counted request, and the global count is 2
C40_Witness ==
    /\ last.op = "handle_query"
    /\ last.ret.status = 400
    /\ global_limiter.count = 2
    /\ anonymous_limiter.usage # EmptyDict

\* a request for which create_session raised was counted
C40_AgentErrorCounted ==
    /\ last.op = "handle_query"
    /\ last.ret.status = 200
    /\ ~last.ret.agent_invoked
    /\ global_limiter.count >= 1

\* a request answered 503 was counted
C40_NoRunnerCounted ==
    /\ last.op = "handle_query"
    /\ last.ret.status = 503
    /\ global_limiter.count >= 1
====
